---- MODULE Spec2Model ----
(***************************************************************************)
(* A model of the Valkey vector adapter (ValkeyAdapter and its helpers).   *)
(*                                                                         *)
(* The adapter's coroutines are modelled as tasks that advance one label   *)
(* at a time.  A label is a call or an await of the source; everything a   *)
(* coroutine does between two labels is one atomic step, as it is for an   *)
(* asyncio event loop.  The remote store (indexes, JSON documents) and the *)
(* embedding engine are the environment: a store command takes effect in   *)
(* the step that awaits it.                                                *)
(***************************************************************************)
EXTENDS Integers, Sequences, FiniteSets, TLC

\* ------------------------------------------------------------------ bounds

NumTasks == 2
MaxPoints == 2
MaxTexts == 2
MaxIds == 2
MaxLimit == 2
MaxHandles == 3
MaxCreates == 2
MaxEntries == 2

\* ------------------------------------------------------- program constants

\* batch_search(score_threshold=0.1).  Scores and thresholds are counted in
\* tenths: 1 is 0.1, 10 is 1.0.
DefaultThreshold == 1

\* ------------------------------------------------------------------ values

\* Python's None / an optional value: <<>> is None, <<v>> carries v.
None == <<>>
Some(v) == <<v>>
IsNone(o) == o = <<>>
The(o) == o[1]

Tasks == 1..NumTasks
Collections == {"a", "b"}
PointIds == {"1", "2"}
Texts == {"x", "y"}
QueryTexts == {"x", "xy"}

RECURSIVE SeqsUpTo(_, _)
SeqsUpTo(S, n) ==
    IF n = 0 THEN {<<>>}
    ELSE SeqsUpTo(S, n - 1) \cup
         {Append(s, e) : s \in {q \in SeqsUpTo(S, n - 1) : Len(q) = n - 1}, e \in S}

Range(s) == {s[k] : k \in DOMAIN s}

Min(a, b) == IF a < b THEN a ELSE b

\* ------------------------------------------------------- payload trees

\* A Python value of a payload, tagged by its type: a UUID, a string, a
\* mapping (its items <<key, value>> in insertion order), a list or a tuple
\* (its items as <<"", value>>).  s is the text of a UUID or a string.
Uuid(s) == [t |-> "uuid", s |-> s, v |-> <<>>]
Str(s) == [t |-> "str", s |-> s, v |-> <<>>]
Dict(items) == [t |-> "dict", s |-> "", v |-> items]
List(items) == [t |-> "list", s |-> "", v |-> [k \in DOMAIN items |-> <<"", items[k]>>]]
Tuple(items) == [t |-> "tuple", s |-> "", v |-> [k \in DOMAIN items |-> <<"", items[k]>>]]

\* str(uuid)
StrOfUuid(u) == Str(u.s)

RECURSIVE _serialize_for_json(_)
_serialize_for_json(obj) ==
    IF obj.t = "uuid" THEN StrOfUuid(obj)
    ELSE IF obj.t = "dict"
         THEN Dict([k \in DOMAIN obj.v |->
                       <<obj.v[k][1], _serialize_for_json(obj.v[k][2])>>])
    ELSE IF obj.t = "list"
         THEN List([k \in DOMAIN obj.v |-> _serialize_for_json(obj.v[k][2])])
    ELSE obj

\* Whether a tree holds a UUID, at any depth and in any container.
RECURSIVE HasUuid(_)
HasUuid(obj) ==
    IF obj.t = "uuid" THEN TRUE
    ELSE \E k \in DOMAIN obj.v : HasUuid(obj.v[k][2])

\* dict lookup: the value stored under key, None when the key is absent.
DictGet(d, key) ==
    IF \E k \in DOMAIN d.v : d.v[k][1] = key
    THEN Some((d.v[CHOOSE k \in DOMAIN d.v : d.v[k][1] = key])[2])
    ELSE None

\* ------------------------------------------------------------- JSON text

\* A string handed to or produced by the json module.  tag "json": the text
\* of a JSON document, with the tree it denotes; tag "raw": a string that is
\* no JSON document.  As the payload_data of a stored document, two more:
\* tag "absent", the document has no such key; tag "nonstr", the value under
\* the key is no string.
NoTree == Str("")
JsonText(tree) == [tag |-> "json", tree |-> tree, raw |-> ""]
RawText(s) == [tag |-> "raw", tree |-> NoTree, raw |-> s]

\* json.dumps: a tree that still holds a UUID is not serializable (TypeError).
\* A tuple is written as an array, so the text denotes a list in its place.
JsonDumpsFails(tree) == HasUuid(tree)
JsonDumps(tree) ==
    LET RECURSIVE written(_)
        written(obj) ==
            IF obj.t \in {"list", "tuple"}
            THEN List([k \in DOMAIN obj.v |-> written(obj.v[k][2])])
            ELSE IF obj.t = "dict"
                 THEN Dict([k \in DOMAIN obj.v |->
                               <<obj.v[k][1], written(obj.v[k][2])>>])
            ELSE obj
    IN JsonText(written(tree))

\* json.loads: JSONDecodeError on a string that is no JSON document.
JsonLoadsFails(text) == text.tag # "json"
JsonLoads(text) == text.tree

\* ------------------------------------------------------- adapter helpers

_index_name(collection) == "index:" \o collection

_key_prefix(collection) == "vdb:" \o collection \o ":"

_key(collection, pid) == _key_prefix(collection) \o pid

\* struct.pack("<n>f", ...): the values as consecutive 32-bit floats.  The
\* vectors of this model have components 0 and 1, which float32 holds exactly.
_to_float32_bytes(vec) == [fmt |-> "f", n |-> Len(vec), vals |-> vec]

\* ------------------------------------------------------- embedding engine

\* EmbeddingEngine.embed_text on a reliable engine: one vector per text.
EmbedOne(text) ==
    IF text = "x" THEN <<1, 0>>
    ELSE IF text = "y" THEN <<0, 1>>
    ELSE <<1, 1>>

embed_data(data) == [k \in DOMAIN data |-> EmbedOne(data[k])]

\* ------------------------------------------------------------ data points

\* A DataPoint of the caller: an id (a UUID) and an embeddable text.  The
\* callers of the model have two versions of point 1 and one of point 2.
DataPoints == {dp \in [id : PointIds, text : Texts] : dp.id = "2" => dp.text = "y"}

\* An embedding of the id in place of the text.
EmbeddableId(dp) == dp.id

\* DataPoint.get_embeddable_data
get_embeddable_data(dp) == dp.text

\* DataPoint.model_dump(): the id is still a UUID.
model_dump(dp) == Dict(<< <<"id", Uuid(dp.id)>>, <<"text", Str(dp.text)>> >>)

\* payload = _serialize_for_json(data_point.model_dump())
PayloadOf(dp) == _serialize_for_json(model_dump(dp))

\* The document create_data_points builds for a point and its embedding.
doc_data(dp, embedding) ==
    [id |-> dp.id,
     vector |-> embedding,
     payload_data |-> JsonDumps(PayloadOf(dp))]

\* ------------------------------------------------------------ the store

HasPrefix(key, prefix) ==
    /\ Len(key) >= Len(prefix)
    /\ SubSeq(key, 1, Len(prefix)) = prefix

\* A JSON.SET that leaves the store with the one document.
JsonSetAlone(d, key, doc) == [k \in {key} |-> doc]

\* JSON.SET key $ doc
JsonSet(d, key, doc) ==
    [k \in DOMAIN d \cup {key} |-> IF k = key THEN doc ELSE d[k]]

\* A count of the keys asked for, not of the keys removed.
DelCountAsked(d, keys) == Cardinality(keys)

\* DEL keys: the store without them, and how many it held.
DelKeys(d, keys) == [k \in DOMAIN d \ keys |-> d[k]]
DelCount(d, keys) == Cardinality(DOMAIN d \cap keys)

\* The keys an index covers: the stored documents under its prefix.
IndexedKeys(idx, d, index) == {k \in DOMAIN d : HasPrefix(k, idx[index])}

\* FT.INFO index: num_docs
NumDocs(idx, d, index) == Cardinality(IndexedKeys(idx, d, index))

\* Cosine distance between two of the model's vectors, in tenths.
Dot(v, w) == v[1] * w[1] + v[2] * w[2]
CosineDistance(v, w) ==
    IF v = w THEN 0
    ELSE IF Dot(v, w) = 0 THEN 10
    ELSE 3

\* The decimal text of a score of n tenths, and float() of such a text.
ScoreText(n) ==
    IF n = 0 THEN "0" ELSE IF n = 3 THEN "0.3" ELSE "1"
ParseFloat(s) ==
    IF s = "0" THEN Some(0)
    ELSE IF s = "0.3" THEN Some(3)
    ELSE IF s = "1" THEN Some(10)
    ELSE None

\* The answers FT.SEARCH may give to "*=>[KNN k @vector $query_vector]": the
\* k nearest indexed keys by ascending distance, ties in any order.
Rankings(idx, d, index, qbytes, k) ==
    LET cand == IndexedKeys(idx, d, index)
        n == Min(k, Cardinality(cand))
        dist(key) == CosineDistance(d[key].vector, qbytes.vals)
    IN {s \in SeqsUpTo(cand, n) :
          /\ Len(s) = n
          /\ \A p, q \in 1..n : p < q => s[p] # s[q] /\ dist(s[p]) <= dist(s[q])
          /\ \A key \in cand \ Range(s) : \A p \in 1..n : dist(s[p]) <= dist(key)}

\* A string on the wire: bytes or text.
Bytes(x) == [b |-> TRUE, x |-> x]
Text(x) == [b |-> FALSE, x |-> x]

\* A store that returns the distance under the alias asked for it.
ScoreFieldAliased == "score"

\* The name under which the store returns the distance of the KNN clause,
\* whatever alias the return field asks for: the one the decoder reads.
ScoreField == "__vector_score"

\* The reply to FT.SEARCH for one ranking: (count, key -> field map), keys,
\* field names and values as bytes; the document's fields under their
\* aliases, the distance under the store's name for it.
\* A reply has a shape: "pair" is a list of two elements whose second is a
\* mapping.  An entry of the mapping has a kind, "dict" when its value is a
\* field map: a sequence of <<name, value>> in reply order.
SearchReply(d, qbytes, ranking, with_vector) ==
    LET fields(key) ==
          << <<Bytes("id"), Bytes(d[key].id)>>,
             <<Bytes("payload_data"), Bytes(d[key].payload_data)>>,
             <<Bytes(ScoreField),
               Bytes(ScoreText(CosineDistance(d[key].vector, qbytes.vals)))>> >>
          \o (IF with_vector
              THEN << <<Bytes("vector"), Bytes(d[key].vector)>> >>
              ELSE <<>>)
    IN [shape |-> "pair",
        count |-> Len(ranking),
        mapping |-> [p \in DOMAIN ranking |->
                        [key |-> Bytes(ranking[p]), kind |-> "dict",
                         fields |-> fields(ranking[p])]]]

\* ------------------------------------------------------- document codec

\* A _b2s that returns what it is given.
_b2sUnchanged(w) == w

\* UTF-8 decoding of bytes to text; text is returned unchanged.
_b2s(w) == IF w.b THEN Text(w.x) ELSE w

Has(fields, name) == \E k \in DOMAIN fields : fields[k][1] = name
Get(fields, name) ==
    IF Has(fields, name)
    THEN Some((fields[CHOOSE k \in DOMAIN fields : fields[k][1] = name])[2])
    ELSE None

\* fields.get(b"name") if b"name" in fields else fields.get("name")
GetEither(fields, name) ==
    IF Has(fields, Bytes(name)) THEN Get(fields, Bytes(name))
    ELSE Get(fields, Text(name))

\* A payload decoding that takes whatever JSON value it parsed for the
\* payload.
PayloadUnwrapped(payload_raw) ==
    IF IsNone(payload_raw) THEN Dict(<<>>)
    ELSE LET payload_str == _b2s(The(payload_raw))
         IN IF payload_str.b THEN Dict(<<>>)
            ELSE IF JsonLoadsFails(payload_str.x)
                 THEN Dict(<< <<"_payload_raw", Str(payload_str.x.raw)>> >>)
            ELSE JsonLoads(payload_str.x)

\* payload = {}; if payload_raw is not None: payload_str = _b2s(payload_raw);
\* if isinstance(payload_str, str): obj = json.loads(payload_str): obj when
\* it is a dict, {"_payload": obj} when it is not, and
\* {"_payload_raw": payload_str} on a JSONDecodeError.
PayloadFrom(payload_raw) ==
    IF IsNone(payload_raw) THEN Dict(<<>>)
    ELSE LET payload_str == _b2s(The(payload_raw))
         IN IF payload_str.b THEN Dict(<<>>)
            ELSE IF JsonLoadsFails(payload_str.x)
                 THEN Dict(<< <<"_payload_raw", Str(payload_str.x.raw)>> >>)
            ELSE IF JsonLoads(payload_str.x).t = "dict" THEN JsonLoads(payload_str.x)
            ELSE Dict(<< <<"_payload", JsonLoads(payload_str.x)>> >>)

\* One ScoredResult from one entry of the reply.  Its id is the value as
\* _b2s left it, text or bytes; float() takes the digits of either.
ScoredResultOf(entry) ==
    LET key_str == _b2s(entry.key)
        raw_id == GetEither(entry.fields, "id")
        result_id == IF ~IsNone(raw_id) THEN _b2s(The(raw_id)) ELSE key_str
        raw_score == GetEither(entry.fields, "__vector_score")
        score == IF ~IsNone(raw_score) THEN ParseFloat(The(raw_score).x)
                 ELSE None
        payload_raw == GetEither(entry.fields, "payload_data")
    IN [id |-> result_id, payload |-> PayloadFrom(payload_raw), score |-> score]

\* if not isinstance(raw, (list, tuple)) or len(raw) < 2
\*    or not isinstance(raw[1], dict): return []
\* "long" is a list of more than two elements whose second is a mapping.
Decodable(raw) == raw.shape \in {"pair", "long"}

\* float(score): ValueError on a text that is no number.
FloatFails(text) == IsNone(ParseFloat(text))

\* The error the loop body raises on an entry, "" when it raises none:
\* `b"id" in fields` is a TypeError on None, fields.get an AttributeError on
\* a list, float(score) a ValueError on a score that is no number.
EntryError(entry) ==
    IF entry.kind = "none" THEN "TypeError"
    ELSE IF entry.kind # "dict" THEN "AttributeError"
    ELSE LET raw_score == GetEither(entry.fields, "__vector_score")
         IN IF ~IsNone(raw_score) /\ FloatFails(The(raw_score).x)
            THEN "ValueError"
            ELSE ""

\* The error _build_scored_results_from_ft raises on a reply: that of the
\* first entry that raises one, "" when it returns.
DecodeError(raw) ==
    IF ~Decodable(raw) THEN ""
    ELSE IF \A p \in DOMAIN raw.mapping : EntryError(raw.mapping[p]) = "" THEN ""
    ELSE EntryError(raw.mapping[
             CHOOSE p \in DOMAIN raw.mapping :
                /\ EntryError(raw.mapping[p]) # ""
                /\ \A q \in 1..(p - 1) : EntryError(raw.mapping[q]) = ""])

_build_scored_results_from_ft(raw) ==
    IF ~Decodable(raw) THEN <<>>
    ELSE [p \in DOMAIN raw.mapping |-> ScoredResultOf(raw.mapping[p])]

\* ------------------------------------------------------------------ state

VARIABLES
    client,     \* self._client: 0 is None, otherwise a handle
    connected,  \* self._connected
    lock,       \* VECTOR_DB_LOCK: 0 is free, otherwise the task holding it
    waiters,    \* the tasks queued on VECTOR_DB_LOCK, first come first
    handles,    \* handles[h]: "open" or "closed", for every handle created
    indexes,    \* the store's indexes: index name -> key prefix
    docs,       \* the store's JSON documents: key -> document
    ftCreates,  \* per index name, the FT.CREATE commands the store received
                \* since that name was last dropped, counted up to MaxCreates
    env,        \* "reliable", or "faulty": calls to the store may fail
    pc,         \* per task: the await or return point it is at
    call,       \* per task: the operation in progress and its arguments
    stack,      \* per task: the return points of the calls in progress
    loc,        \* per task: the local variables of the coroutines
    result,     \* per task: how the operation ended
    cnt,        \* per task: the external calls the operation has made, the
                \* texts of its last embedding call, and the K and the
                \* vector of its last KNN query
    snap,       \* per task: the store as it was when the operation began,
                \* and where every task was
    kids,       \* per task: the coroutines its operation has gathered
    wire        \* per task: its requests in flight, in the order sent: that
                \* of the operation itself (who = 0), those of the coroutines
                \* it has gathered (who = k), and those an earlier operation
                \* left behind (who = -1); chan is the handle a request was
                \* sent on, 0 for a request that goes through no handle

adapter == <<client, connected>>
lockv == <<lock, waiters>>
store == <<indexes, docs, ftCreates>>
vars == <<client, connected, lock, waiters, handles, indexes, docs, ftCreates,
          env, pc, call, stack, loc, result, cnt, snap, kids, wire>>

NoCall ==
    [name |-> "", coll |-> "", points |-> <<>>, ids |-> <<>>, qtext |-> None,
     qvec |-> None, limit |-> None, with_vector |-> FALSE, texts |-> <<>>,
     threshold |-> None, raw |-> None]

InitLoc ==
    [conn |-> 0, ret |-> <<>>, exc |-> "", lim |-> 0, vec |-> <<>>,
     vecs |-> <<>>, acc |-> <<>>, todo |-> <<>>]

NoResult == [status |-> "", value |-> <<>>, error |-> ""]

NoCnt ==
    [embed |-> 0, info |-> 0, create |-> 0, write |-> 0, get |-> 0,
     query |-> 0, knn |-> 0, del |-> 0, list |-> 0, drop |-> 0, open |-> 0,
     data |-> <<>>, vec |-> <<>>]

\* A store with no index, no document.
EmptyMap == [k \in {} |-> 0]

\* A gathered coroutine: the await it is at ("new" before its first step,
\* "end" when it is through), the
\* handle it sends on, the collection, the position k of its point or its
\* query, its point, its vector, the limit and the with_vector it was given,
\* its resolved limit, what it returned and the error it raised.
NoKid ==
    [at |-> "", conn |-> 0, coll |-> "", k |-> 0, dp |-> [id |-> "", text |-> ""],
     vec |-> <<>>, limit |-> None, with_vector |-> FALSE, lim |-> 0,
     out |-> <<>>, exc |-> ""]

NoSnap == [indexes |-> EmptyMap, docs |-> EmptyMap, pcs |-> [t \in Tasks |-> ""]]

InitWith(e) ==
    /\ client = 0
    /\ connected = FALSE
    /\ lock = 0
    /\ waiters = <<>>
    /\ handles = <<>>
    /\ indexes = EmptyMap
    /\ docs = EmptyMap
    /\ ftCreates = EmptyMap
    /\ env = e
    /\ pc = [t \in Tasks |-> "idle"]
    /\ call = [t \in Tasks |-> NoCall]
    /\ stack = [t \in Tasks |-> <<>>]
    /\ loc = [t \in Tasks |-> InitLoc]
    /\ result = [t \in Tasks |-> NoResult]
    /\ cnt = [t \in Tasks |-> NoCnt]
    /\ snap = [t \in Tasks |-> NoSnap]
    /\ kids = [t \in Tasks |-> <<>>]
    /\ wire = [t \in Tasks |-> <<>>]

Init == InitWith("reliable")

\* ---------------------------------------------------------- environment

\* Whether a call to the store or the engine goes through.
Oks == IF env = "faulty" THEN {TRUE, FALSE} ELSE {TRUE}

\* A command needs an open handle.
Usable(h) == h # 0 /\ h \in DOMAIN handles /\ handles[h] = "open"

Bump(t, what) == [cnt EXCEPT ![t][what] = @ + 1]

Exists(index) == index \in DOMAIN indexes

\* --------------------------------------------------------- control flow

\* Whether a coroutine at `label` with the locals l waits for the answer to
\* a request it has sent.  At the other labels it runs: it has an answer, an
\* error or the end of a loop to act on.
Pending(label, l) ==
    \/ label \in {"gc_create", "cc_create", "cdp_embed", "bs_embed", "se_info",
                  "se_embed", "se_search", "cl_close"}
    \/ label \in {"hc_info", "dl_del", "pr_list"} /\ l.exc = ""
    \/ label = "rt_get" /\ l.exc = "" /\ l.todo # <<>>
    \/ label = "pr_drop" /\ l.todo # <<>>

\* The request at position p of those a task has in flight can be answered.
\* The commands sent on one handle are answered in the order sent; the
\* creation of a handle and a call to the embedding engine go through no
\* handle and are answered whenever they are.
Turn(t, p) ==
    /\ p \in DOMAIN wire[t]
    /\ \/ wire[t][p].chan = 0
       \/ \A q \in 1..(p - 1) : wire[t][q].chan # wire[t][p].chan

\* A task that waits for an answer goes on when its request can be answered.
MyTurn(t) ==
    Pending(pc[t], loc[t]) => \E p \in DOMAIN wire[t] : wire[t][p].who = 0 /\ Turn(t, p)

\* The requests in flight once the task has its answer and has gone on to
\* `label`, where it may have sent the next one.
Sent(t, label, l) ==
    SelectSeq(wire[t], LAMBDA r : r.who # 0)
        \o (IF Pending(label, l)
            THEN <<[who |-> 0,
                    chan |-> IF label \in {"gc_create", "cdp_embed", "bs_embed",
                                           "se_embed"}
                             THEN 0 ELSE l.conn,
                    kid |-> NoKid]>>
            ELSE <<>>)

\* Continue at the first of `labels`, the others being return points.
Jump(t, l, labels) ==
    /\ MyTurn(t)
    /\ pc' = [pc EXCEPT ![t] = Head(labels)]
    /\ stack' = [stack EXCEPT ![t] = Tail(labels) \o @]
    /\ loc' = [loc EXCEPT ![t] = l]
    /\ wire' = [wire EXCEPT ![t] = Sent(t, Head(labels), l)]
    /\ UNCHANGED result

Goto(t, l, label) == Jump(t, l, <<label>>)

\* The outcome of an operation that returned, and of one that raised.
Returned(value) == [status |-> "ok", value |-> value, error |-> ""]
RaisedDropped(error) == Returned(<<>>)
Raised(error) == [status |-> "raise", value |-> <<>>, error |-> error]

\* The operation ends: its outcome is recorded for the caller.
Done(t, outcome) ==
    /\ MyTurn(t)
    /\ pc' = [pc EXCEPT ![t] = "done"]
    /\ loc' = [loc EXCEPT ![t] = InitLoc]
    /\ result' = [result EXCEPT ![t] = outcome]
    /\ wire' = [wire EXCEPT ![t] = Sent(t, "done", InitLoc)]
    /\ UNCHANGED stack

\* return value: to the calling coroutine, which goes on at the return point
\* on top of the stack, or to the caller of the operation.
Return(t, l, value) ==
    IF stack[t] = <<>> THEN Done(t, Returned(value))
    ELSE LET back == [l EXCEPT !.ret = value, !.exc = ""] IN
         /\ MyTurn(t)
         /\ pc' = [pc EXCEPT ![t] = Head(stack[t])]
         /\ stack' = [stack EXCEPT ![t] = Tail(@)]
         /\ loc' = [loc EXCEPT ![t] = back]
         /\ wire' = [wire EXCEPT ![t] = Sent(t, Head(stack[t]), back)]
         /\ UNCHANGED result

\* raise error: to the calling coroutine, or to the caller of the operation.
Raise(t, l, error) ==
    IF stack[t] = <<>> THEN Done(t, Raised(error))
    ELSE LET back == [l EXCEPT !.ret = <<>>, !.exc = error] IN
         /\ MyTurn(t)
         /\ pc' = [pc EXCEPT ![t] = Head(stack[t])]
         /\ stack' = [stack EXCEPT ![t] = Tail(@)]
         /\ loc' = [loc EXCEPT ![t] = back]
         /\ wire' = [wire EXCEPT ![t] = Sent(t, Head(stack[t]), back)]
         /\ UNCHANGED result

\* An operation begins: its arguments, fresh counters, the store as it is.
Begin(t, c) ==
    /\ pc[t] = "idle"
    /\ call' = [call EXCEPT ![t] = c]
    /\ cnt' = [cnt EXCEPT ![t] = NoCnt]
    /\ snap' = [snap EXCEPT ![t] = [indexes |-> indexes, docs |-> docs, pcs |-> pc]]

\* The caller has taken the outcome; the task can run the next operation.
\* The requests of the coroutines the operation gathered that are still in
\* flight stay in flight: asyncio.gather has raised the first error and the
\* other coroutines run on.
Ack(t) ==
    /\ pc[t] = "done"
    /\ wire' = [wire EXCEPT ![t] =
                   [p \in DOMAIN @ |->
                       IF @[p].who > 0
                       THEN [wire[t][p] EXCEPT !.who = -1,
                                               !.kid = kids[t][wire[t][p].who]]
                       ELSE @[p]]]
    /\ kids' = [kids EXCEPT ![t] = <<>>]
    /\ pc' = [pc EXCEPT ![t] = "idle"]
    /\ call' = [call EXCEPT ![t] = NoCall]
    /\ result' = [result EXCEPT ![t] = NoResult]
    /\ cnt' = [cnt EXCEPT ![t] = NoCnt]
    /\ snap' = [snap EXCEPT ![t] = NoSnap]
    /\ UNCHANGED <<adapter, lockv, handles, store, env, stack, loc>>

\* ------------------------------------------------------- get_connection

\* A get_connection that never finds a cached handle.
CachedNever == FALSE

\* A get_connection that also takes a connect in progress for a cached
\* handle, as one under a lock would wait for it.
CachedOrConnecting == (connected /\ client # 0) \/ \E u \in Tasks : pc[u] = "gc_create"

\* if self._connected and self._client is not None: return self._client
Cached == connected /\ client # 0

\* `await self.get_connection()`: the cached handle is returned without
\* suspending; otherwise the coroutine suspends in GlideClient.create.
\* `labels`: where the caller continues, then its return points.
CallGC(t, l, labels) ==
    IF Cached
    THEN Jump(t, [l EXCEPT !.conn = client], labels)
    ELSE Jump(t, l, <<"gc_create">> \o labels)

get_connection(t) ==
    /\ Begin(t, [NoCall EXCEPT !.name = "get_connection"])
    /\ IF Cached
       THEN Done(t, Returned(<<client>>))
       ELSE Goto(t, InitLoc, "gc_create")
    /\ UNCHANGED <<adapter, lockv, handles, store, env, kids>>

\* A get_connection that sets its flag before it has its handle.
FlagSetBeforeCreate(ok) == TRUE

\* self._connected = True comes after the await of GlideClient.create: a
\* creation that raises leaves the flag as it was.
FlagAfterCreate(ok) == IF ok THEN TRUE ELSE connected

\* self._client = await GlideClient.create(cfg); self._connected = True
gc_create(t) ==
    /\ pc[t] = "gc_create"
    /\ Len(handles) < MaxHandles
    /\ \E ok \in Oks :
         IF ok
         THEN LET h == Len(handles) + 1 IN
              /\ handles' = Append(handles, "open")
              /\ client' = h
              /\ connected' = FlagAfterCreate(ok)
              /\ cnt' = Bump(t, "open")
              /\ Return(t, [loc[t] EXCEPT !.conn = h], <<h>>)
         ELSE /\ Raise(t, loc[t], "ConnectionError")
              /\ connected' = FlagAfterCreate(ok)
              /\ UNCHANGED <<client, handles, cnt>>
    /\ UNCHANGED <<lockv, store, env, kids, call, snap>>

\* ------------------------------------------------------- has_collection

\* `await self.has_collection(name)` from a coroutine that continues at the
\* first of `labels`.
CallHC(t, l, labels) == CallGC(t, l, <<"hc_info">> \o labels)

\* A has_collection that takes every answer for a yes.
HcAnswerAlwaysTrue(h, ok, index) == TRUE

\* try: await ft.info(...); return True / except Exception: return False
HcAnswer(h, ok, index) == ok /\ Usable(h) /\ Exists(index)

has_collection(t, name) ==
    /\ Begin(t, [NoCall EXCEPT !.name = "has_collection", !.coll = name])
    /\ CallGC(t, InitLoc, <<"hc_info">>)
    /\ UNCHANGED <<adapter, lockv, handles, store, env, kids>>

\* try: await ft.info(client, index); return True / except: return False.
\* get_connection is called before the try: its error propagates.
hc_info(t) ==
    /\ pc[t] = "hc_info"
    /\ LET l == loc[t] IN
       IF l.exc # ""
       THEN Raise(t, l, l.exc) /\ UNCHANGED cnt
       ELSE \E ok \in Oks :
              /\ cnt' = Bump(t, "info")
              /\ Return(t, l, <<HcAnswer(l.conn, ok, _index_name(call[t].coll))>>)
    /\ UNCHANGED <<adapter, lockv, handles, store, env, kids, call, snap>>

\* ----------------------------------------------------- create_collection

\* A lock that is kept when its block is left.
ReleaseNever == UNCHANGED lockv

\* Leaving the block of async with self.VECTOR_DB_LOCK, by a return or by an
\* exception: the lock is free, and the first waiter is the one to get it.
Release == lock' = 0 /\ UNCHANGED waiters

\* A lock that lets everybody in.
AcquireFreeAlways(t) == TRUE

\* async with self.VECTOR_DB_LOCK: a free lock nobody waits for is taken
\* without suspending.
AcquireFree(t) == lock = 0 /\ waiters = <<>>

create_collection(t, name) ==
    /\ Begin(t, [NoCall EXCEPT !.name = "create_collection", !.coll = name])
    /\ IF AcquireFree(t)
       THEN /\ lock' = t
            /\ UNCHANGED waiters
            /\ CallHC(t, InitLoc, <<"cc_has">>)
       ELSE /\ waiters' = Append(waiters, t)
            /\ UNCHANGED lock
            /\ Goto(t, InitLoc, "cc_wait")
    /\ UNCHANGED <<adapter, handles, store, env, kids>>

\* The lock was released and this task is the first in the queue.
cc_wait(t) ==
    /\ pc[t] = "cc_wait"
    /\ lock = 0
    /\ waiters # <<>> /\ Head(waiters) = t
    /\ lock' = t
    /\ waiters' = Tail(waiters)
    /\ CallHC(t, loc[t], <<"cc_has">>)
    /\ UNCHANGED <<adapter, handles, store, env, kids, call, cnt, snap>>

\* A create_collection that creates without looking.
AlreadyExistsIgnored(l) == FALSE

\* if await self.has_collection(collection_name): ... return
AlreadyExists(l) == l.ret = <<TRUE>>

\* When the collection is not there, FT.CREATE is sent on self._client: the
\* field is read as the command is sent, before the await of its answer.
\* When the field is None the call raises an AttributeError before anything
\* is sent: it is logged and raised again, and the lock is released.
cc_has(t) ==
    /\ pc[t] = "cc_has"
    /\ LET l == loc[t] IN
       IF l.exc # "" THEN Raise(t, l, l.exc) /\ Release
       ELSE IF AlreadyExists(l) THEN Return(t, l, <<>>) /\ Release
       ELSE IF client = 0 THEN Raise(t, l, "AttributeError") /\ Release
       ELSE Goto(t, [l EXCEPT !.conn = client], "cc_create") /\ UNCHANGED lockv
    /\ UNCHANGED <<adapter, handles, store, env, kids, call, cnt, snap>>

\* FT.CREATE index ON JSON PREFIX 1 prefix SCHEMA ...: what the store
\* answers, and the store afterwards.  An existing index is an error.
FtCreateReached(h, ok) == ok /\ Usable(h)
FtCreateOk(h, ok, index) == FtCreateReached(h, ok) /\ ~Exists(index)
FtCreated(index, prefix) ==
    [k \in DOMAIN indexes \cup {index} |->
        IF k = index THEN prefix ELSE indexes[k]]
FtCreateLogged(index) ==
    [k \in DOMAIN ftCreates \cup {index} |->
        IF k \in DOMAIN ftCreates
        THEN Min(ftCreates[k] + (IF k = index THEN 1 ELSE 0), MaxCreates)
        ELSE 1]

\* A create_collection that takes any answer for an acknowledgement.
AffirmativeAny(answer) == TRUE

\* if ok not in (b"OK", "OK"): raise Exception(...)
Affirmative(answer) == answer \in {Bytes("OK"), Text("OK")}

\* ok = await ft.create(self._client, index, fields, options), on the handle
\* read from the adapter's field.  The
\* store creates the index and answers OK, as bytes or as text; or it creates
\* none, and the command raises or is answered by something else.  Anything
\* but OK is raised; the lock is released.
cc_create(t) ==
    /\ pc[t] = "cc_create"
    /\ LET index == _index_name(call[t].coll)
           prefix == _key_prefix(call[t].coll)
           checked(answer) == IF Affirmative(answer) THEN Return(t, loc[t], <<>>)
                              ELSE Raise(t, loc[t], "Exception")
       IN \E ok \in Oks :
            /\ cnt' = Bump(t, "create")
            /\ IF FtCreateReached(loc[t].conn, ok)
               THEN ftCreates' = FtCreateLogged(index)
               ELSE UNCHANGED ftCreates
            /\ IF FtCreateOk(loc[t].conn, ok, index)
               THEN /\ indexes' = FtCreated(index, prefix)
                    /\ \E answer \in {Bytes("OK"), Text("OK")} : checked(answer)
               ELSE /\ UNCHANGED indexes
                    /\ \E answer \in {None, Some(Text("ERR"))} :
                         IF IsNone(answer) THEN Raise(t, loc[t], "RequestError")
                         ELSE checked(The(answer))
    /\ Release
    /\ UNCHANGED <<adapter, handles, docs, env, kids, call, snap>>

\* ---------------------------------------------------- create_data_points

create_data_points(t, name, points) ==
    /\ Begin(t, [NoCall EXCEPT !.name = "create_data_points", !.coll = name,
                               !.points = points])
    /\ CallGC(t, InitLoc, <<"cdp_check">>)
    /\ UNCHANGED <<adapter, lockv, handles, store, env, kids>>

\* client = await self.get_connection(); the assert holds, for nothing runs
\* between the return and it.  Then: if not await self.has_collection(...)
cdp_check(t) ==
    /\ pc[t] = "cdp_check"
    /\ LET l == loc[t] IN
       IF l.exc # "" THEN Raise(t, l, l.exc)
       ELSE CallHC(t, l, <<"cdp_has">>)
    /\ UNCHANGED <<adapter, lockv, handles, store, env, kids, call, cnt, snap>>

\* A create_data_points that skips the existence check, and one that has
\* lost the `not` of it.
CollectionFoundUnchecked(l) == TRUE
CollectionFoundInverted(l) == l.ret # <<TRUE>>

\* if not await self.has_collection(collection_name): raise ...
CollectionFound(l) == l.ret = <<TRUE>>

cdp_has(t) ==
    /\ pc[t] = "cdp_has"
    /\ LET l == loc[t] IN
       IF l.exc # "" THEN Raise(t, l, l.exc)
       ELSE IF ~CollectionFound(l) THEN Raise(t, l, "CollectionNotFoundError")
       ELSE Goto(t, l, "cdp_embed")
    /\ UNCHANGED <<adapter, lockv, handles, store, env, kids, call, cnt, snap>>

\* What the engine may answer for n texts: one vector per text, or, when it
\* is faulty, fewer.
EmbedAnswers(data) ==
    IF env = "faulty"
    THEN {SubSeq(embed_data(data), 1, n) : n \in 0..Len(data)}
    ELSE {embed_data(data)}

\* zip(data_points, data_vectors, strict=False): the shorter one decides.
ZipLen(points, vectors) == Min(Len(points), Len(vectors))

\* The coroutine whose request is at position p of those in flight.
Kid(t, p) ==
    LET h == wire[t][p] IN IF h.who > 0 THEN kids[t][h.who] ELSE h.kid

\* The request at position p is that of a gathered coroutine and can be
\* answered, and the operation itself is suspended: in a request of its own,
\* in the gather, on the lock, or not running.
KidTurn(t, p) ==
    /\ Turn(t, p)
    /\ wire[t][p].who # 0
    /\ \/ Pending(pc[t], loc[t])
       \/ pc[t] \in {"idle", "done", "cc_wait", "cdp_write", "bs_gather"}

\* A filter that lets every result through, and a batch that returns its
\* groups last first.
FilterGroupAll(group, threshold) == group
FilterByThresholdReversed(groups, threshold) ==
    [g \in DOMAIN groups |->
        SelectSeq(groups[Len(groups) + 1 - g],
                  LAMBDA r : The(r.score) < The(threshold))]

\* result.score < score_threshold: a TypeError when either is None.
FilterFails(groups, threshold) ==
    \E g \in DOMAIN groups : \E k \in DOMAIN groups[g] :
        IsNone(groups[g][k].score) \/ IsNone(threshold)

FilterGroup(group, threshold) ==
    SelectSeq(group, LAMBDA r : The(r.score) < The(threshold))

FilterByThreshold(groups, threshold) ==
    [g \in DOMAIN groups |-> FilterGroup(groups[g], threshold)]

\* The coroutine whose request at position p was answered has run on and is
\* now `kid`: at its next request, or through.  When it has raised and the
\* operation still waits in asyncio.gather with no error yet, gather takes
\* its error for the one to raise; the operation itself resumes in a later
\* step (gather), and other coroutines may run before it does.  An operation
\* that has ended, or a later one, is not concerned.
Stepped(t, p, kid) ==
    LET h == wire[t][p]
        mine == h.who > 0
        rest == [q \in 1..(Len(wire[t]) - 1) |->
                    IF q < p THEN wire[t][q] ELSE wire[t][q + 1]]
        next == [who |-> h.who,
                 chan |-> IF kid.at = "gc_create" THEN 0 ELSE kid.conn,
                 kid |-> IF mine THEN NoKid ELSE kid]
        first == /\ mine /\ pc[t] \in {"cdp_write", "bs_gather"}
                 /\ kid.exc # "" /\ loc[t].exc = ""
    IN /\ kids' = IF mine THEN [kids EXCEPT ![t][h.who] = kid] ELSE kids
       /\ wire' = [wire EXCEPT ![t] =
                      rest \o (IF kid.at = "end" THEN <<>> ELSE <<next>>)]
       /\ loc' = IF first THEN [loc EXCEPT ![t].exc = kid.exc] ELSE loc
       /\ UNCHANGED <<pc, stack, result>>

\* data_vectors = await self.embed_data(data_to_embed); the documents are
\* built, each payload through json.dumps, one JSON.SET coroutine per zipped
\* pair on the handle the operation holds, and handed to asyncio.gather,
\* where the operation suspends.  gather() of no document returns at once.
cdp_embed(t) ==
    /\ pc[t] = "cdp_embed"
    /\ LET l == loc[t]
           data_to_embed == [k \in DOMAIN call[t].points |->
                                get_embeddable_data(call[t].points[k])]
           set(vectors, k) == [NoKid EXCEPT !.at = "new", !.conn = l.conn,
                                            !.coll = call[t].coll, !.k = k,
                                            !.dp = call[t].points[k],
                                            !.vec = vectors[k]]
       IN /\ cnt' = [cnt EXCEPT ![t].embed = @ + 1, ![t].data = data_to_embed]
          /\ \E ok \in Oks :
               IF ok
               THEN \E data_vectors \in EmbedAnswers(data_to_embed) :
                      LET n == ZipLen(call[t].points, data_vectors) IN
                      IF \E k \in 1..n : JsonDumpsFails(PayloadOf(call[t].points[k]))
                      THEN Raise(t, l, "TypeError") /\ UNCHANGED kids
                      ELSE IF n = 0 THEN Return(t, l, <<>>) /\ UNCHANGED kids
                      ELSE /\ Goto(t, [l EXCEPT !.vecs = data_vectors], "cdp_write")
                           /\ kids' = [kids EXCEPT ![t] =
                                 [k \in 1..n |-> set(data_vectors, k)]]
               ELSE Raise(t, l, "EmbeddingError") /\ UNCHANGED kids
    /\ UNCHANGED <<adapter, lockv, handles, store, env, call, snap>>

\* await asyncio.gather(...), as the operation sees it.  The coroutines it
\* was handed take their first step one after the other, in list order, the
\* event loop running nothing in between: a JSON.SET is sent; a search asks
\* for the connection, and with a cached handle goes on to the FT.INFO of its
\* has_collection, without one to GlideClient.create.  Later the operation
\* resumes: with the error gather took from the first coroutine that raised,
\* by the except clauses of create_data_points or out of batch_search
\* unchanged; or, when every coroutine is through, with their results, which
\* batch_search filters by the threshold.  The coroutines that still run
\* when it raises are not cancelled.
gather(t) ==
    /\ pc[t] \in {"cdp_write", "bs_gather"}
    /\ LET l == loc[t]
           subs == kids[t]
           results == [k \in DOMAIN subs |-> subs[k].out]
           started(k) ==
               IF pc[t] = "cdp_write" THEN [subs[k] EXCEPT !.at = "set"]
               ELSE IF Cached THEN [subs[k] EXCEPT !.at = "hc_info", !.conn = client]
               ELSE [subs[k] EXCEPT !.at = "gc_create"]
       IN IF \A k \in DOMAIN subs : subs[k].at = "new"
          THEN /\ kids' = [kids EXCEPT ![t] = [k \in DOMAIN subs |-> started(k)]]
               /\ wire' = [wire EXCEPT ![t] =
                     @ \o [k \in DOMAIN subs |->
                              [who |-> k,
                               chan |-> IF started(k).at = "gc_create" THEN 0
                                        ELSE started(k).conn,
                               kid |-> NoKid]]]
               /\ UNCHANGED <<pc, stack, loc, result>>
          ELSE /\ IF l.exc # "" THEN Raise(t, l, l.exc)
                  ELSE /\ \A k \in DOMAIN subs : subs[k].at = "end"
                       /\ IF pc[t] = "cdp_write" THEN Return(t, l, <<>>)
                          ELSE IF FilterFails(results, call[t].threshold)
                               THEN Raise(t, l, "TypeError")
                          ELSE Return(t, l, FilterByThreshold(results,
                                                              call[t].threshold))
               /\ UNCHANGED kids
    /\ UNCHANGED <<adapter, lockv, handles, store, env, call, cnt, snap>>

\* A JSON.SET of a gathered document is answered: of the operation that
\* waits in the gather, of one that has raised since, or of an earlier one.
cdp_write(t) ==
    \E p \in DOMAIN wire[t] :
        /\ KidTurn(t, p)
        /\ Kid(t, p).at = "set"
        /\ LET c == Kid(t, p)
           IN \E ok \in Oks :
                LET wrote == ok /\ Usable(c.conn) IN
                /\ cnt' = IF wire[t][p].who > 0 THEN Bump(t, "write") ELSE cnt
                /\ docs' = IF wrote
                           THEN JsonSet(docs, _key(c.coll, c.dp.id), doc_data(c.dp, c.vec))
                           ELSE docs
                /\ Stepped(t, p, [c EXCEPT !.at = "end",
                                           !.exc = IF wrote THEN "" ELSE "RequestError"])
        /\ UNCHANGED <<adapter, lockv, handles, indexes, ftCreates, env, call, snap>>

\* --------------------------------------------------------------- retrieve

retrieve(t, name, ids) ==
    /\ Begin(t, [NoCall EXCEPT !.name = "retrieve", !.coll = name, !.ids = ids])
    /\ CallGC(t, [InitLoc EXCEPT !.todo = ids], <<"rt_get">>)
    /\ UNCHANGED <<adapter, lockv, handles, store, env, kids>>

\* What retrieve appends for a stored document: its parsed payload, or the
\* raw document when the payload is no JSON.
RawDoc(doc) == Str("[doc " \o doc.id \o "]")

\* A retrieve that appends the raw document in every case.
RetrievedRaw(doc) == RawDoc(doc)

RetrievedEntry(doc) ==
    IF JsonLoadsFails(doc.payload_data) THEN RawDoc(doc)
    ELSE JsonLoads(doc.payload_data)

\* The error the loop body raises on a stored document, "" when it raises
\* none: doc[0]["payload_data"] is a KeyError on a document without the key,
\* json.loads(payload_str) a TypeError on a value that is no string.
RetrieveError(doc) ==
    IF doc.payload_data.tag = "absent" THEN "KeyError"
    ELSE IF doc.payload_data.tag = "nonstr" THEN "TypeError"
    ELSE ""

\* for data_id in data_point_ids: raw_doc = await glide_json.get(...)
\* get_connection is called before the try: its error propagates; an error
\* inside the loop, of the store or of the loop body, returns [].
rt_get(t) ==
    /\ pc[t] = "rt_get"
    /\ LET l == loc[t] IN
       IF l.exc # "" THEN Raise(t, l, l.exc) /\ UNCHANGED cnt
       ELSE IF l.todo = <<>> THEN Return(t, l, l.acc) /\ UNCHANGED cnt
       ELSE \E ok \in Oks :
              LET key == _key(call[t].coll, Head(l.todo)) IN
              /\ cnt' = Bump(t, "get")
              /\ IF ~(ok /\ Usable(l.conn)) THEN Return(t, l, <<>>)
                 ELSE IF key \notin DOMAIN docs
                      THEN Goto(t, [l EXCEPT !.todo = Tail(@)], "rt_get")
                 ELSE IF RetrieveError(docs[key]) # "" THEN Return(t, l, <<>>)
                 ELSE Goto(t, [l EXCEPT !.todo = Tail(@),
                                 !.acc = Append(@, RetrievedEntry(docs[key]))],
                           "rt_get")
    /\ UNCHANGED <<adapter, lockv, handles, store, env, kids, call, snap>>

\* ----------------------------------------------------------------- search

search(t, name, query_text, query_vector, limit, with_vector) ==
    /\ Begin(t, [NoCall EXCEPT !.name = "search", !.coll = name,
                               !.qtext = query_text, !.qvec = query_vector,
                               !.limit = limit, !.with_vector = with_vector])
    /\ CallGC(t, InitLoc, <<"se_check">>)
    /\ UNCHANGED <<adapter, lockv, handles, store, env, kids>>

\* A search that has lost its parameter check.
MissingQueryUnchecked(a) == FALSE

\* if query_text is None and query_vector is None: raise ...
\* if not await self.has_collection(collection_name): ...
MissingQuery(a) == IsNone(a.qtext) /\ IsNone(a.qvec)

se_check(t) ==
    /\ pc[t] = "se_check"
    /\ LET l == loc[t]
           a == call[t]
       IN IF l.exc # "" THEN Raise(t, l, l.exc)
          ELSE IF MissingQuery(a)
               THEN Raise(t, l, "MissingQueryParameterError")
          ELSE CallHC(t, l, <<"se_has">>)
    /\ UNCHANGED <<adapter, lockv, handles, store, env, kids, call, cnt, snap>>

\* `limit < 0` for `limit <= 0`.
NoRoomBelowZero(limit) == limit < 0

\* if limit <= 0: return []
NoRoom(limit) == limit <= 0

\* A search that embeds the query text whenever it has one.
SearchFromTextFirst(t, l, limit) ==
    LET a == call[t] IN
    IF NoRoom(limit) THEN Return(t, l, <<>>)
    ELSE IF ~IsNone(a.qtext) THEN Goto(t, [l EXCEPT !.lim = limit], "se_embed")
    ELSE Goto(t, [l EXCEPT !.lim = limit, !.vec = The(a.qvec)], "se_search")

\* From the resolved limit on: `if limit <= 0: return []`, then the query
\* vector: awaited from the engine, or the one supplied.

SearchFrom(t, l, limit) ==
    LET a == call[t] IN
    IF NoRoom(limit) THEN Return(t, l, <<>>)
    ELSE IF IsNone(a.qvec) THEN Goto(t, [l EXCEPT !.lim = limit], "se_embed")
    ELSE Goto(t, [l EXCEPT !.lim = limit, !.vec = The(a.qvec)], "se_search")

se_has(t) ==
    /\ pc[t] = "se_has"
    /\ LET l == loc[t]
           a == call[t]
       IN IF l.exc # "" THEN Raise(t, l, l.exc)
          ELSE IF l.ret # <<TRUE>> THEN Return(t, l, <<>>)
          ELSE IF IsNone(a.limit) THEN Goto(t, l, "se_info")
          ELSE SearchFrom(t, l, The(a.limit))
    /\ UNCHANGED <<adapter, lockv, handles, store, env, kids, call, cnt, snap>>

\* info = await ft.info(client, index); limit = info["num_docs"]
se_info(t) ==
    /\ pc[t] = "se_info"
    /\ LET l == loc[t]
           index == _index_name(call[t].coll)
       IN \E ok \in Oks :
            /\ cnt' = Bump(t, "info")
            /\ IF ok /\ Usable(l.conn) /\ Exists(index)
               THEN SearchFrom(t, l, NumDocs(indexes, docs, index))
               ELSE Raise(t, l, "RequestError")
    /\ UNCHANGED <<adapter, lockv, handles, store, env, kids, call, snap>>

\* [vec] = await self.embed_data([query_text])
se_embed(t) ==
    /\ pc[t] = "se_embed"
    /\ LET l == loc[t]
           a == call[t]
       IN /\ cnt' = [cnt EXCEPT ![t].embed = @ + 1, ![t].data = <<The(a.qtext)>>]
          /\ \E ok \in Oks :
               IF ok
               THEN \E vs \in EmbedAnswers(<<The(a.qtext)>>) :
                      IF Len(vs) = 1
                      THEN Goto(t, [l EXCEPT !.vec = vs[1]], "se_search")
                      ELSE Raise(t, l, "ValueError")
               ELSE Raise(t, l, "EmbeddingError")
    /\ UNCHANGED <<adapter, lockv, handles, store, env, kids, call, snap>>

\* raw_results = await ft.search(...); return the decoded results
se_search(t) ==
    /\ pc[t] = "se_search"
    /\ LET l == loc[t]
           a == call[t]
           index == _index_name(call[t].coll)
           vec_bytes == _to_float32_bytes(l.vec)
       IN \E ok \in Oks :
            /\ cnt' = [cnt EXCEPT ![t].query = @ + 1, ![t].knn = l.lim,
                                  ![t].vec = l.vec]
            /\ IF ok /\ Usable(l.conn) /\ Exists(index)
               THEN \E ranking \in Rankings(indexes, docs, index, vec_bytes, l.lim) :
                      LET raw_results == SearchReply(docs, vec_bytes, ranking,
                                                     a.with_vector)
                      IN IF DecodeError(raw_results) # ""
                         THEN Raise(t, l, DecodeError(raw_results))
                         ELSE Return(t, l, _build_scored_results_from_ft(raw_results))
               ELSE Raise(t, l, "RequestError")
    /\ UNCHANGED <<adapter, lockv, handles, store, env, kids, call, snap>>

\* ----------------------------------------------------------- batch_search

batch_search(t, name, query_texts, limit, with_vectors, score_threshold) ==
    /\ Begin(t, [NoCall EXCEPT !.name = "batch_search", !.coll = name,
                               !.texts = query_texts, !.limit = limit,
                               !.with_vector = with_vectors,
                               !.threshold = score_threshold])
    /\ CallHC(t, InitLoc, <<"bs_has">>)
    /\ UNCHANGED <<adapter, lockv, handles, store, env, kids>>

\* An empty sub-list per query text for a collection that is not there.
AbsentBatchPerQuery(query_texts) == [k \in DOMAIN query_texts |-> <<>>]

\* if not await self.has_collection(collection_name): ... return []
AbsentBatch(query_texts) == <<>>

bs_has(t) ==
    /\ pc[t] = "bs_has"
    /\ LET l == loc[t] IN
       IF l.exc # "" THEN Raise(t, l, l.exc)
       ELSE IF l.ret # <<TRUE>> THEN Return(t, l, AbsentBatch(call[t].texts))
       ELSE Goto(t, l, "bs_embed")
    /\ UNCHANGED <<adapter, lockv, handles, store, env, kids, call, cnt, snap>>

\* vectors = await self.embed_data(query_texts); then one search coroutine
\* per vector is handed to asyncio.gather, where the operation suspends.
\* gather() of no search returns at once, and the filter of no group is the
\* empty list.
bs_embed(t) ==
    /\ pc[t] = "bs_embed"
    /\ LET l == loc[t]
           search_task(vectors, k) ==
               [NoKid EXCEPT !.at = "new",
                             !.coll = call[t].coll, !.k = k, !.vec = vectors[k],
                             !.limit = call[t].limit,
                             !.with_vector = call[t].with_vector]
       IN /\ cnt' = [cnt EXCEPT ![t].embed = @ + 1, ![t].data = call[t].texts]
          /\ \E ok \in Oks :
               IF ok
               THEN \E vectors \in EmbedAnswers(call[t].texts) :
                      IF vectors = <<>> THEN Return(t, l, <<>>) /\ UNCHANGED kids
                      ELSE /\ Goto(t, [l EXCEPT !.vecs = vectors], "bs_gather")
                           /\ kids' = [kids EXCEPT ![t] =
                                 [k \in DOMAIN vectors |-> search_task(vectors, k)]]
               ELSE Raise(t, l, "EmbeddingError") /\ UNCHANGED kids
    /\ UNCHANGED <<adapter, lockv, handles, store, env, call, snap>>

\* A request of a gathered search is answered, and the search runs on as
\* search does: to its next request, to its return, or to its error.  The
\* searches of an operation that has raised run on as well, during what the
\* caller does next.
bs_gather(t) ==
    \E p \in DOMAIN wire[t] :
        /\ KidTurn(t, p)
        /\ Kid(t, p).at \in {"gc_create", "hc_info", "se_info", "se_search"}
        /\ LET c == Kid(t, p)
               mine == wire[t][p].who > 0
               index == _index_name(c.coll)
               vec_bytes == _to_float32_bytes(c.vec)
               goes(at, limit) == Stepped(t, p, [c EXCEPT !.at = at, !.lim = limit])
               returns(out) == Stepped(t, p, [c EXCEPT !.at = "end", !.out = out])
               raises(error) == Stepped(t, p, [c EXCEPT !.at = "end", !.exc = error])
               from(limit) ==
                   IF NoRoom(limit) THEN returns(<<>>) ELSE goes("se_search", limit)
               counted(what) == cnt' = IF mine THEN Bump(t, what) ELSE cnt
           IN \E ok \in Oks :
                CASE c.at = "gc_create" ->
                       /\ Len(handles) < MaxHandles
                       /\ connected' = FlagAfterCreate(ok)
                       /\ IF ok
                          THEN LET h == Len(handles) + 1 IN
                               /\ handles' = Append(handles, "open")
                               /\ client' = h
                               /\ counted("open")
                               /\ Stepped(t, p, [c EXCEPT !.at = "hc_info", !.conn = h])
                          ELSE /\ UNCHANGED <<client, handles, cnt>>
                               /\ raises("ConnectionError")
                  [] c.at = "hc_info" ->
                       /\ counted("info")
                       /\ IF ~HcAnswer(c.conn, ok, index) THEN returns(<<>>)
                          ELSE IF IsNone(c.limit) THEN goes("se_info", 0)
                          ELSE from(The(c.limit))
                       /\ UNCHANGED <<adapter, handles>>
                  [] c.at = "se_info" ->
                       /\ counted("info")
                       /\ IF ok /\ Usable(c.conn) /\ Exists(index)
                          THEN from(NumDocs(indexes, docs, index))
                          ELSE raises("RequestError")
                       /\ UNCHANGED <<adapter, handles>>
                  [] c.at = "se_search" ->
                       /\ cnt' = IF mine
                                 THEN [cnt EXCEPT ![t].query = @ + 1, ![t].knn = c.lim,
                                                  ![t].vec = c.vec]
                                 ELSE cnt
                       /\ IF ok /\ Usable(c.conn) /\ Exists(index)
                          THEN \E ranking \in Rankings(indexes, docs, index, vec_bytes, c.lim) :
                                 LET raw_results == SearchReply(docs, vec_bytes, ranking,
                                                                c.with_vector)
                                 IN IF DecodeError(raw_results) # ""
                                    THEN raises(DecodeError(raw_results))
                                    ELSE returns(_build_scored_results_from_ft(raw_results))
                          ELSE raises("RequestError")
                       /\ UNCHANGED <<adapter, handles>>
        /\ UNCHANGED <<lockv, store, env, call, snap>>

\* ----------------------------------------------------- delete_data_points

delete_data_points(t, name, ids) ==
    /\ Begin(t, [NoCall EXCEPT !.name = "delete_data_points", !.coll = name,
                               !.ids = ids])
    /\ CallGC(t, InitLoc, <<"dl_del">>)
    /\ UNCHANGED <<adapter, lockv, handles, store, env, kids>>

\* deleted_count = await client.delete(ids); return {"deleted": count}
\* DEL takes at least one key: the store rejects the command sent with none.
dl_del(t) ==
    /\ pc[t] = "dl_del"
    /\ LET l == loc[t]
           keys == {_key(call[t].coll, call[t].ids[k]) : k \in DOMAIN call[t].ids}
       IN IF l.exc # ""
          THEN Raise(t, l, l.exc) /\ UNCHANGED <<docs, cnt>>
          ELSE \E ok \in Oks :
                 /\ cnt' = Bump(t, "del")
                 /\ IF ok /\ Usable(l.conn) /\ keys # {}
                    THEN /\ docs' = DelKeys(docs, keys)
                         /\ Return(t, l, <<DelCount(docs, keys)>>)
                    ELSE /\ UNCHANGED docs
                         /\ Raise(t, l, "RequestError")
    /\ UNCHANGED <<adapter, lockv, handles, indexes, ftCreates, env, kids, call, snap>>

\* ------------------------------------------------------------------ prune

prune(t) ==
    /\ Begin(t, [NoCall EXCEPT !.name = "prune"])
    /\ CallGC(t, InitLoc, <<"pr_list">>)
    /\ UNCHANGED <<adapter, lockv, handles, store, env, kids>>

\* A prune that raises an error of its own for the one it met.
PruneErrorWrapped(e) == "PruneError"

\* except Exception as e: ...; raise e
PruneError(e) == e

\* The orders in which FT._LIST may enumerate the indexes.
Enumerations(S) ==
    {s \in SeqsUpTo(S, Cardinality(S)) :
        Len(s) = Cardinality(S) /\ Range(s) = S}

\* all_indexes = await ft.list(client)
pr_list(t) ==
    /\ pc[t] = "pr_list"
    /\ LET l == loc[t] IN
       IF l.exc # "" THEN Raise(t, l, l.exc) /\ UNCHANGED cnt
       ELSE \E ok \in Oks :
              /\ cnt' = Bump(t, "list")
              /\ IF ok /\ Usable(l.conn)
                 THEN \E all_indexes \in Enumerations(DOMAIN indexes) :
                        Goto(t, [l EXCEPT !.todo = all_indexes], "pr_drop")
                 ELSE Raise(t, l, PruneError("RequestError"))
    /\ UNCHANGED <<adapter, lockv, handles, store, env, kids, call, snap>>

\* A drop that takes the documents of the index with it (FT.DROPINDEX DD).
DocsDroppedWithIndex(d, prefix) == [k \in {q \in DOMAIN d : ~HasPrefix(q, prefix)} |-> d[k]]

\* ft.dropindex(client, index) asks for the index only: the documents under
\* its prefix stay.
DocsAfterDrop(d, prefix) == d

\* A drop that leaves the index in place.
DroppedNothing(m, index) == m

\* FT.DROPINDEX index: the index goes, the documents stay.
Dropped(m, index) == [k \in DOMAIN m \ {index} |-> m[k]]

\* for index in all_indexes: await ft.dropindex(client, index)
pr_drop(t) ==
    /\ pc[t] = "pr_drop"
    /\ LET l == loc[t] IN
       IF l.todo = <<>>
       THEN Return(t, l, <<>>) /\ UNCHANGED <<indexes, ftCreates, docs, cnt>>
       ELSE \E ok \in Oks :
              LET index == Head(l.todo) IN
              /\ cnt' = Bump(t, "drop")
              /\ IF ok /\ Usable(l.conn) /\ Exists(index)
                 THEN /\ indexes' = Dropped(indexes, index)
                      /\ ftCreates' = Dropped(ftCreates, index)
                      /\ docs' = DocsAfterDrop(docs, indexes[index])
                      /\ Goto(t, [l EXCEPT !.todo = Tail(@)], "pr_drop")
                 ELSE /\ UNCHANGED <<indexes, ftCreates, docs>>
                      /\ Raise(t, l, PruneError("RequestError"))
    /\ UNCHANGED <<adapter, lockv, handles, env, kids, call, snap>>

\* ------------------------------------------------------------------ close

\* if self._client is not None: try: await self._client.close()
close(t) ==
    /\ Begin(t, [NoCall EXCEPT !.name = "close"])
    /\ IF client # 0
       THEN Goto(t, [InitLoc EXCEPT !.conn = client], "cl_close") /\ UNCHANGED adapter
       ELSE /\ client' = 0
            /\ connected' = FALSE
            /\ Done(t, Returned(<<>>))
    /\ UNCHANGED <<lockv, handles, store, env, kids>>

\* A close that lets the error of the handle's close out.
CloseErrorRaised(ok) == ~ok

\* except Exception: pass
CloseError(ok) == FALSE

\* await self._client.close(); self._client = None; self._connected = False.
\* A close that fails leaves the handle as it was.
cl_close(t) ==
    /\ pc[t] = "cl_close"
    /\ \E ok \in Oks :
         /\ handles' = IF ok THEN [handles EXCEPT ![loc[t].conn] = "closed"]
                       ELSE handles
         /\ IF CloseError(ok)
            THEN /\ Done(t, Raised("ClosingError"))
                 /\ UNCHANGED adapter
            ELSE /\ client' = 0
                 /\ connected' = FALSE
                 /\ Done(t, Returned(<<>>))
    /\ UNCHANGED <<lockv, store, env, kids, call, cnt, snap>>

\* ------------------------------------------------- the store's other clients

\* The documents another client of the store may have written under the keys
\* of a collection: no payload_data, one that is no string, one that is no
\* JSON.
ForeignDocs ==
    {[id |-> id, vector |-> <<1, 0>>,
      payload_data |-> [tag |-> tag, tree |-> NoTree,
                        raw |-> IF tag = "raw" THEN "{oops" ELSE ""]] :
        id \in PointIds, tag \in {"absent", "nonstr", "raw"}}

\* JSON.SET key $ doc, sent by another client: at any moment, between two
\* awaits of the adapter's caller as well as between two of its operations.
put(key, doc) ==
    /\ docs' = JsonSet(docs, key, doc)
    /\ UNCHANGED <<adapter, lockv, handles, indexes, ftCreates, env, kids, pc, call,
                   stack, loc, result, cnt, snap, wire>>

\* ------------------------------------------------------ the pure helpers

\* A caller hands a payload to _serialize_for_json and gets the result.
serialize_for_json(t, obj) ==
    /\ Begin(t, [NoCall EXCEPT !.name = "_serialize_for_json", !.raw = Some(obj)])
    /\ Done(t, Returned(<<_serialize_for_json(obj)>>))
    /\ UNCHANGED <<adapter, lockv, handles, store, env, kids, stack>>

\* A caller asks for the key of an id in a collection.
key_of(t, collection, pid) ==
    /\ Begin(t, [NoCall EXCEPT !.name = "_key", !.coll = collection,
                               !.ids = <<pid>>])
    /\ Done(t, Returned(<<_key(collection, pid)>>))
    /\ UNCHANGED <<adapter, lockv, handles, store, env, kids, stack>>

\* ------------------------------------------- _build_scored_results_from_ft

\* A caller hands a reply to _build_scored_results_from_ft and gets the list
\* of results, or the error it raises.
decode(t, raw) ==
    /\ Begin(t, [NoCall EXCEPT !.name = "_build_scored_results_from_ft",
                               !.raw = Some(raw)])
    /\ IF DecodeError(raw) # ""
       THEN Done(t, Raised(DecodeError(raw)))
       ELSE Done(t, Returned(_build_scored_results_from_ft(raw)))
    /\ UNCHANGED <<adapter, lockv, handles, store, env, kids, stack>>

\* ------------------------------------------------------ specifications

\* The arguments the callers of the model pass.
PointLists == SeqsUpTo(DataPoints, MaxPoints)
IdLists == SeqsUpTo(PointIds, MaxIds)
TextLists == SeqsUpTo(QueryTexts, MaxTexts)
\* batch_search: the limit unset or set, and two settings of its options.
BatchLimits == {None, Some(MaxLimit)}
BatchOptions ==
    {[with_vectors |-> FALSE, score_threshold |-> Some(DefaultThreshold)],
     [with_vectors |-> TRUE, score_threshold |-> Some(5)]}

\* What a task does once an operation has begun.
\* One caller, one operation at a time, on a reliable store.
Next ==
    \/ get_connection(1)
    \/ \E c \in Collections : has_collection(1, c)
    \/ \E c \in Collections : create_collection(1, c)
    \/ \E c \in Collections, ps \in PointLists : create_data_points(1, c, ps)
    \/ \E c \in Collections, ids \in IdLists : retrieve(1, c, ids)
    \/ \E c \in Collections, qt \in {None, Some("x")}, qv \in {None, Some(<<1, 1>>)},
          lim \in {None} \cup {Some(n) : n \in -1..MaxLimit},
          wv \in BOOLEAN : search(1, c, qt, qv, lim, wv)
    \/ \E c \in Collections, qts \in TextLists, lim \in BatchLimits,
          o \in BatchOptions :
            batch_search(1, c, qts, lim, o.with_vectors, o.score_threshold)
    \/ \E c \in Collections, ids \in IdLists : delete_data_points(1, c, ids)
    \/ prune(1)
    \/ gc_create(1)
    \/ hc_info(1)
    \/ cc_has(1)
    \/ cc_create(1)
    \/ cdp_check(1)
    \/ cdp_has(1)
    \/ cdp_embed(1)
    \/ cdp_write(1)
    \/ gather(1)
    \/ rt_get(1)
    \/ se_check(1)
    \/ se_has(1)
    \/ se_info(1)
    \/ se_embed(1)
    \/ se_search(1)
    \/ bs_has(1)
    \/ bs_embed(1)
    \/ bs_gather(1)
    \/ dl_del(1)
    \/ pr_list(1)
    \/ pr_drop(1)
    \/ Ack(1)

Spec == Init /\ [][Next]_vars

\* Concurrent callers of create_collection on one adapter, reliable store.
NextLock ==
    \E t \in Tasks :
        \/ \E c \in Collections : create_collection(t, c)
        \/ gc_create(t)
        \/ hc_info(t)
        \/ cc_wait(t)
        \/ cc_has(t)
        \/ cc_create(t)
        \/ Ack(t)

SpecLock == Init /\ [][NextLock]_vars

\* The same callers on a store and a transport whose calls may fail.  Every
\* awaited call is answered, and the event loop runs every coroutine that can
\* go on: no step of a task stays possible forever without being taken.
SpecLockLive ==
    /\ InitWith("faulty")
    /\ [][NextLock]_vars
    /\ \A t \in Tasks :
          WF_vars(gc_create(t) \/ hc_info(t) \/ cc_wait(t) \/ cc_has(t) \/ cc_create(t))

\* One caller, one operation at a time, on a store, a transport and an
\* embedding engine whose calls may fail: the operations that create and
\* drop indexes on every collection, those that write and read documents on
\* one.
NextFault ==
    \/ get_connection(1)
    \/ \E c \in Collections : has_collection(1, c)
    \/ \E c \in Collections : create_collection(1, c)
    \/ \E ps \in PointLists : create_data_points(1, "a", ps)
    \/ \E ids \in IdLists : retrieve(1, "a", ids)
    \/ \E qts \in TextLists, lim \in BatchLimits, o \in BatchOptions :
          batch_search(1, "a", qts, lim, o.with_vectors, o.score_threshold)
    \/ prune(1)
    \/ gc_create(1)
    \/ hc_info(1)
    \/ cc_has(1)
    \/ cc_create(1)
    \/ cdp_check(1)
    \/ cdp_has(1)
    \/ cdp_embed(1)
    \/ cdp_write(1)
    \/ gather(1)
    \/ rt_get(1)
    \/ bs_has(1)
    \/ bs_embed(1)
    \/ bs_gather(1)
    \/ pr_list(1)
    \/ pr_drop(1)
    \/ Ack(1)

SpecFault == InitWith("faulty") /\ [][NextFault]_vars

\* One caller of the connection lifecycle, with operations in between, on a
\* transport whose calls may fail.
NextConn ==
    \/ get_connection(1)
    \/ close(1)
    \/ \E c \in Collections : has_collection(1, c)
    \/ \E c \in Collections : create_collection(1, c)
    \/ prune(1)
    \/ gc_create(1)
    \/ cl_close(1)
    \/ hc_info(1)
    \/ cc_has(1)
    \/ cc_create(1)
    \/ pr_list(1)
    \/ pr_drop(1)
    \/ Ack(1)

SpecConn == InitWith("faulty") /\ [][NextConn]_vars

\* Concurrent callers of get_connection and close on one adapter, on a
\* reliable transport.
NextRace ==
    \E t \in Tasks :
        \/ get_connection(t)
        \/ close(t)
        \/ gc_create(t)
        \/ cl_close(t)
        \/ Ack(t)

SpecRace == Init /\ [][NextRace]_vars

\* The same callers on a transport whose handle creations and closes may
\* fail.
SpecRaceFault == InitWith("faulty") /\ [][NextRace]_vars

\* Concurrent callers of get_connection, close and create_collection on one
\* adapter, on a reliable store.
NextClose ==
    \E t \in Tasks :
        \/ get_connection(t)
        \/ close(t)
        \/ \E c \in Collections : create_collection(t, c)
        \/ gc_create(t)
        \/ cl_close(t)
        \/ hc_info(t)
        \/ cc_wait(t)
        \/ cc_has(t)
        \/ cc_create(t)
        \/ Ack(t)

SpecClose == Init /\ [][NextClose]_vars

\* A caller that creates a collection, writes a point to it and searches it
\* in a batch, while another closes the adapter, once.
NextReopen ==
    \/ create_collection(1, "a")
    \/ \E dp \in DataPoints : create_data_points(1, "a", <<dp>>)
    \/ \E qts \in TextLists, lim \in BatchLimits :
          batch_search(1, "a", qts, lim, FALSE, Some(DefaultThreshold))
    \/ close(2)
    \/ gc_create(1)
    \/ hc_info(1)
    \/ cc_has(1)
    \/ cc_create(1)
    \/ cdp_check(1)
    \/ cdp_has(1)
    \/ cdp_embed(1)
    \/ cdp_write(1)
    \/ gather(1)
    \/ bs_has(1)
    \/ bs_embed(1)
    \/ bs_gather(1)
    \/ cl_close(2)
    \/ Ack(1)

SpecReopen == Init /\ [][NextReopen]_vars

\* One task that creates a collection and writes documents to it, a point
\* at a time, and one that prunes, on one adapter and a reliable store.
NextPrune ==
    \/ create_collection(1, "a")
    \/ \E dp \in DataPoints : create_data_points(1, "a", <<dp>>)
    \/ prune(2)
    \/ \E t \in {1, 2} :
          \/ gc_create(t)
          \/ hc_info(t)
          \/ cc_has(t)
          \/ cc_create(t)
          \/ cdp_check(t)
          \/ cdp_has(t)
          \/ cdp_embed(t)
          \/ cdp_write(t)
          \/ gather(t)
          \/ pr_list(t)
          \/ pr_drop(t)
          \/ Ack(t)

SpecPrune == Init /\ [][NextPrune]_vars

\* One caller that writes and reads the documents of one collection, on a
\* reliable store that another client writes documents to.
NextShared ==
    \/ create_collection(1, "a")
    \/ \E ps \in PointLists : create_data_points(1, "a", ps)
    \/ \E ids \in IdLists : retrieve(1, "a", ids)
    \/ \E doc \in ForeignDocs : put(_key("a", doc.id), doc)
    \/ gc_create(1)
    \/ hc_info(1)
    \/ cc_has(1)
    \/ cc_create(1)
    \/ cdp_check(1)
    \/ cdp_has(1)
    \/ cdp_embed(1)
    \/ cdp_write(1)
    \/ gather(1)
    \/ rt_get(1)
    \/ Ack(1)

SpecShared == Init /\ [][NextShared]_vars

\* The replies handed to the decoder.  A field map: an id or none, a score
\* that is a number, one that is none, or none, a payload that is a JSON
\* mapping, another JSON value, no JSON, or none; names and values all
\* bytes or all text.
Wire(b, x) == IF b THEN Bytes(x) ELSE Text(x)

FieldMaps ==
    LET field(b, name, o) ==
            IF IsNone(o) THEN <<>> ELSE << <<Wire(b, name), Wire(b, The(o))>> >>
        ids == {None, Some("1")}
        scores == {None, Some("0.3"), Some("abc")}
        payloads == {None,
                     Some(JsonText(Dict(<< <<"id", Str("1")>> >>))),
                     Some(JsonText(List(<< Str("1") >>))),
                     Some(RawText("{oops"))}
    IN {field(b, "id", i) \o field(b, "payload_data", pl)
           \o field(b, "__vector_score", sc) :
           b \in BOOLEAN, i \in ids, pl \in payloads, sc \in scores}

\* The values of a reply's mapping: field maps, and values that are none.
EntryValues ==
    {[kind |-> "dict", fields |-> f] : f \in FieldMaps}
        \cup {[kind |-> k, fields |-> <<>>] : k \in {"list", "none"}}

\* Replies of up to MaxEntries entries under distinct keys, and values that
\* are no reply: no list, a list too short, a list whose second is no mapping.
RawInputs ==
    LET key(b, p) == Wire(b, "vdb:a:" \o (IF p = 1 THEN "1" ELSE IF p = 2 THEN "2"
                                          ELSE "3"))
    IN {[shape |-> sh, count |-> Len(es),
         mapping |-> [p \in DOMAIN es |->
                         [key |-> key(b, p), kind |-> es[p].kind,
                          fields |-> es[p].fields]]] :
           sh \in {"pair", "long"}, b \in BOOLEAN,
           es \in SeqsUpTo(EntryValues, MaxEntries)}
       \cup {[shape |-> sh, count |-> 0, mapping |-> <<>>] :
                 sh \in {"scalar", "short", "nodict"}}

\* Callers of the pure helpers.  The payloads: a UUID or a string, alone or
\* inside mappings, lists and tuples, two levels deep.  The names: with and
\* without the separator of the key.
NextUtil ==
    LET leaves == {Uuid("1"), Str("1")}
        boxes(S) == {Dict(<< <<"k", e>> >>) : e \in S} \cup {List(<<e>>) : e \in S}
                       \cup {Tuple(<<e>>) : e \in S}
        trees == leaves \cup boxes(leaves) \cup boxes(boxes(leaves))
    IN \E t \in Tasks :
          \/ \E obj \in trees : serialize_for_json(t, obj)
          \/ \E c \in {"a", "b", "a:b"}, id \in {"1", "b:1"} : key_of(t, c, id)
          \/ Ack(t)

SpecUtil == Init /\ [][NextUtil]_vars

\* One caller of the decoder.
NextCodec ==
    \/ \E raw \in RawInputs : decode(1, raw)
    \/ Ack(1)

SpecCodec == Init /\ [][NextCodec]_vars

\* ----------------------------------------------------------------- claims

\* What the formulas below read of an operation that has ended.
Ended(t, name) == pc[t] = "done" /\ call[t].name = name
ReturnedValue(t, value) == result[t].status = "ok" /\ result[t].value = value
RaisedError(t, error) == result[t].status = "raise" /\ result[t].error = error
HadIndex(t) == _index_name(call[t].coll) \in DOMAIN snap[t].indexes
StoreAsBefore(t) == indexes = snap[t].indexes /\ docs = snap[t].docs
HadQuery(t) == ~(IsNone(call[t].qtext) /\ IsNone(call[t].qvec))

\* The documents stored under a collection's key prefix when the operation
\* of task t began.
HadKeys(t) ==
    {k \in DOMAIN snap[t].docs :
        Len(k) > Len(call[t].coll) + 4
        /\ SubSeq(k, 1, Len(call[t].coll) + 5) = "vdb:" \o call[t].coll \o ":"}

\* C1: on a collection whose index does not exist (never created, or dropped
\* since), has_collection returns false and a search with a query returns
\* the empty list and does not raise.
C1_AbsentCollectionIsSoft ==
    (pc[1] = "done" /\ ~HadIndex(1)) =>
        /\ call[1].name = "has_collection" => ReturnedValue(1, <<FALSE>>)
        /\ (call[1].name = "search" /\ HadQuery(1)) => ReturnedValue(1, <<>>)

\* C1 witness: a search with a query on a collection whose index was dropped
\* while its documents are still stored has returned the empty list.
C1_Witness ==
    /\ Ended(1, "search") /\ HadQuery(1) /\ ~HadIndex(1)
    /\ HadKeys(1) # {}
    /\ ReturnedValue(1, <<>>)

\* C2: create_collection is idempotent.  A call on a name that has no index
\* issues one FT.CREATE and leaves the index; a call on a name that has one
\* issues none, leaves the store as it was and returns normally; the store
\* never receives a second FT.CREATE for a name that exists.
C2_CreateCollectionIdempotent ==
    /\ \A index \in DOMAIN ftCreates : ftCreates[index] = 1
    /\ Ended(1, "create_collection") =>
          /\ ReturnedValue(1, <<>>)
          /\ Exists(_index_name(call[1].coll))
          /\ indexes[_index_name(call[1].coll)] = "vdb:" \o call[1].coll \o ":"
          /\ docs = snap[1].docs
          /\ \A index \in DOMAIN snap[1].indexes :
                Exists(index) /\ indexes[index] = snap[1].indexes[index]
          /\ DOMAIN indexes = DOMAIN snap[1].indexes \cup {_index_name(call[1].coll)}
          /\ cnt[1].create = (IF HadIndex(1) THEN 0 ELSE 1)

\* C2 witness: a second create_collection on a name has ended, with documents
\* already stored in the collection.
C2_Witness ==
    /\ Ended(1, "create_collection") /\ HadIndex(1)
    /\ HadKeys(1) # {}
    /\ cnt[1].create = 0 /\ ReturnedValue(1, <<>>)

\* C3: concurrent create_collection calls exclude each other from the
\* existence check to the creation; the store receives at most one FT.CREATE
\* per name and no call fails.
InCreation(t) ==
    /\ call[t].name = "create_collection"
    /\ pc[t] \in {"gc_create", "hc_info", "cc_has", "cc_create"}

C3_CreationIsSerialized ==
    /\ \A t, u \in Tasks : (t # u /\ InCreation(t)) => ~InCreation(u)
    /\ \A t \in Tasks : InCreation(t) => lock = t
    /\ \A index \in DOMAIN ftCreates : ftCreates[index] <= 1
    /\ \A t \in Tasks : pc[t] = "done" => ReturnedValue(t, <<>>)

\* C3 witness: two calls for one name, both begun before the index existed,
\* have both ended, and one of them created the index.
C3_Witness ==
    \E t, u \in Tasks :
        /\ t # u
        /\ Ended(t, "create_collection") /\ Ended(u, "create_collection")
        /\ call[t].coll = call[u].coll
        /\ ~HadIndex(t) /\ ~HadIndex(u)
        /\ cnt[t].create = 1 /\ cnt[u].create = 0

\* C4: create_data_points on a collection whose index does not exist raises
\* CollectionNotFoundError, calls the embedding engine not once, writes no
\* document and leaves the store as it was.
C4_MissingCollectionRaises ==
    (Ended(1, "create_data_points") /\ ~HadIndex(1)) =>
        /\ RaisedError(1, "CollectionNotFoundError")
        /\ cnt[1].embed = 0
        /\ cnt[1].write = 0
        /\ StoreAsBefore(1)

\* C4 witness: such a call with two points has raised.
C4_Witness ==
    /\ Ended(1, "create_data_points") /\ ~HadIndex(1)
    /\ Len(call[1].points) = 2
    /\ RaisedError(1, "CollectionNotFoundError")

\* The key of a collection's document, written out.
KeyOf(collection, id) == "vdb:" \o collection \o ":" \o id

\* C5, as claimed: create_data_points and delete_data_points on a collection
\* whose index does not exist both end in an error.
C5_EveryWritePathIsHard ==
    (pc[1] = "done" /\ ~HadIndex(1)
        /\ call[1].name \in {"create_data_points", "delete_data_points"}) =>
        result[1].status = "raise"

\* C5, amended: on a collection whose index does not exist, create_data_points
\* raises CollectionNotFoundError, while delete_data_points makes no existence
\* check: given an id, it removes the listed keys that are stored and returns
\* their number.
C5_OnlyCreateDataPointsIsHard ==
    (pc[1] = "done" /\ ~HadIndex(1)) =>
        /\ call[1].name = "create_data_points" =>
              RaisedError(1, "CollectionNotFoundError")
        /\ (call[1].name = "delete_data_points" /\ call[1].ids # <<>>) =>
              LET asked == {KeyOf(call[1].coll, call[1].ids[k]) :
                               k \in DOMAIN call[1].ids}
              IN /\ ReturnedValue(1, <<Cardinality(asked \cap DOMAIN snap[1].docs)>>)
                 /\ DOMAIN docs = DOMAIN snap[1].docs \ asked
                 /\ indexes = snap[1].indexes

\* C5 witness: delete_data_points on a collection whose index was dropped has
\* returned normally, a document removed.
C5_Witness ==
    /\ Ended(1, "delete_data_points") /\ ~HadIndex(1)
    /\ Len(call[1].ids) = 2
    /\ ReturnedValue(1, <<1>>)

\* C6: create_data_points with no points on a collection that exists returns
\* normally and writes nothing: the store is as it was, so a collection that
\* held no document holds none; and a search on a collection that holds no
\* document returns the empty list.
C6_EmptyInsertWritesNothing ==
    /\ (Ended(1, "create_data_points") /\ HadIndex(1) /\ call[1].points = <<>>) =>
          /\ ReturnedValue(1, <<>>)
          /\ cnt[1].write = 0
          /\ StoreAsBefore(1)
    /\ (Ended(1, "search") /\ HadIndex(1) /\ HadQuery(1) /\ HadKeys(1) = {}) =>
          ReturnedValue(1, <<>>)

\* C6 witness: an empty insert into a collection that exists and holds no
\* document has returned; the embedding engine was called, with no text.
C6_Witness ==
    /\ Ended(1, "create_data_points") /\ HadIndex(1) /\ call[1].points = <<>>
    /\ HadKeys(1) = {}
    /\ ReturnedValue(1, <<>>)
    /\ cnt[1].embed = 1

\* The payload create_data_points writes for a point, written out: its id as
\* a string, its text.
WrittenPayload(id, text) == Dict(<< <<"id", Str(id)>>, <<"text", Str(text)>> >>)

\* The last point of a list that carries the id.
LastWith(points, id) ==
    points[CHOOSE k \in DOMAIN points :
              /\ points[k].id = id
              /\ \A m \in DOMAIN points : points[m].id = id => m <= k]

\* C7: after create_data_points has returned normally every point of the list
\* is stored under its key with the payload written for it (its id as a
\* string); every stored document is such a payload under the key of its id;
\* and retrieve returns, in the order asked, the payload of each id that is
\* stored, and nothing for the others.
C7_InsertRetrieveRoundTrip ==
    /\ \A key \in DOMAIN docs :
          \E c \in Collections, dp \in DataPoints :
             /\ key = KeyOf(c, dp.id)
             /\ docs[key].payload_data =
                   [tag |-> "json", tree |-> WrittenPayload(dp.id, dp.text), raw |-> ""]
    /\ (Ended(1, "create_data_points") /\ result[1].status = "ok") =>
          \A k \in DOMAIN call[1].points :
             LET dp == LastWith(call[1].points, call[1].points[k].id)
                 key == KeyOf(call[1].coll, dp.id)
             IN /\ key \in DOMAIN docs
                /\ docs[key].payload_data.tree = WrittenPayload(dp.id, dp.text)
    /\ Ended(1, "retrieve") =>
          LET stored(id) == KeyOf(call[1].coll, id) \in DOMAIN snap[1].docs
              found == SelectSeq(call[1].ids, stored)
          IN /\ result[1].status = "ok"
             /\ Len(result[1].value) = Len(found)
             /\ \A k \in DOMAIN found :
                   /\ result[1].value[k] =
                         snap[1].docs[KeyOf(call[1].coll, found[k])].payload_data.tree
                   /\ DictGet(result[1].value[k], "id") = Some(Str(found[k]))

\* C7 witness: retrieve of ids 2 and 1, both stored, has returned the payload
\* of 2 and then that of 1.
C7_Witness ==
    /\ Ended(1, "retrieve")
    /\ call[1].ids = <<"2", "1">>
    /\ Len(result[1].value) = 2
    /\ DictGet(result[1].value[1], "id") = Some(Str("2"))
    /\ DictGet(result[1].value[2], "id") = Some(Str("1"))

\* C8: a search with neither a query text nor a query vector raises
\* MissingQueryParameterError, whatever the collection and the limit, and
\* makes no embedding call and sends the store no command.
C8_MissingQueryRaises ==
    (Ended(1, "search") /\ ~HadQuery(1)) =>
        /\ RaisedError(1, "MissingQueryParameterError")
        /\ cnt[1].embed = 0
        /\ cnt[1].info = 0
        /\ cnt[1].query = 0
        /\ StoreAsBefore(1)

\* C8 witness: such a search, on a collection that exists and with the limit
\* unset, has raised.
C8_Witness ==
    /\ Ended(1, "search") /\ ~HadQuery(1)
    /\ HadIndex(1) /\ IsNone(call[1].limit)
    /\ RaisedError(1, "MissingQueryParameterError")

\* C9: the limit of a search on a collection that exists: unset, it is the
\* number of documents of the index, read with a second FT.INFO; at or below
\* zero, the search returns the empty list with no embedding call and no KNN
\* query; above zero, it is the K of the one KNN query sent.
C9_LimitResolution ==
    (Ended(1, "search") /\ HadQuery(1) /\ HadIndex(1)) =>
        LET num_docs == Cardinality(HadKeys(1))
            resolved == IF IsNone(call[1].limit) THEN num_docs
                        ELSE The(call[1].limit)
        IN /\ cnt[1].info = (IF IsNone(call[1].limit) THEN 2 ELSE 1)
           /\ resolved <= 0 =>
                 /\ ReturnedValue(1, <<>>)
                 /\ cnt[1].embed = 0
                 /\ cnt[1].query = 0
           /\ resolved > 0 =>
                 /\ cnt[1].query = 1
                 /\ cnt[1].knn = resolved

\* C9 witness: a search by text with the limit unset, on a collection that
\* exists and holds no document, has returned the empty list.
C9_Witness ==
    /\ Ended(1, "search") /\ HadIndex(1)
    /\ ~IsNone(call[1].qtext) /\ IsNone(call[1].qvec)
    /\ IsNone(call[1].limit)
    /\ HadKeys(1) = {}
    /\ ReturnedValue(1, <<>>)
    /\ cnt[1].info = 2

\* C10: batch_search on a collection that exists returns one list per query
\* text, in the order of the texts: the i-th list is what a search with the
\* embedding of the i-th text answers on the store as it was, without the
\* results whose score is not below the threshold; it is empty when none is.
C10_BatchSearchAligned ==
    (Ended(1, "batch_search") /\ HadIndex(1)) =>
        LET resolved == IF IsNone(call[1].limit) THEN Cardinality(HadKeys(1))
                        ELSE The(call[1].limit)
            index == _index_name(call[1].coll)
            below(group) ==
                SelectSeq(group, LAMBDA r : The(r.score) < The(call[1].threshold))
            answers(text) ==
                LET q == _to_float32_bytes(EmbedOne(text)) IN
                IF resolved <= 0 THEN {<<>>}
                ELSE {below(_build_scored_results_from_ft(
                          SearchReply(snap[1].docs, q, ranking, call[1].with_vector))) :
                        ranking \in Rankings(snap[1].indexes, snap[1].docs, index,
                                             q, resolved)}
        IN /\ result[1].status = "ok"
           /\ Len(result[1].value) = Len(call[1].texts)
           /\ \A g \in DOMAIN result[1].value :
                 result[1].value[g] \in answers(call[1].texts[g])

\* C10 witness: a batch_search over two different texts has returned two
\* lists, the first with a result and the second empty.
C10_Witness ==
    /\ Ended(1, "batch_search") /\ HadIndex(1)
    /\ Len(call[1].texts) = 2 /\ call[1].texts[1] # call[1].texts[2]
    /\ result[1].status = "ok"
    /\ Len(result[1].value) = 2
    /\ Len(result[1].value[1]) = 1
    /\ result[1].value[2] = <<>>
    /\ cnt[1].query = 2

\* C11: the threshold filter.  A batch_search whose searches have returned
\* ends without an error; every result it returns has a score, below the
\* threshold; and every result of its i-th search whose score is below the
\* threshold is in its i-th list.
C11_FilterCompletes ==
    Ended(1, "batch_search") =>
        /\ result[1].status = "ok"
        /\ \A g \in DOMAIN result[1].value : \A k \in DOMAIN result[1].value[g] :
              LET score == result[1].value[g][k].score
              IN ~IsNone(score) /\ The(score) < The(call[1].threshold)
        /\ \A g \in DOMAIN kids[1] : \A k \in DOMAIN kids[1][g].out :
              LET r == kids[1][g].out[k] IN
              (~IsNone(r.score) /\ The(r.score) < The(call[1].threshold)) =>
                 \E j \in DOMAIN result[1].value[g] : result[1].value[g][j] = r

\* C11 witness: a batch_search has returned a list that keeps one result of
\* its search and leaves another out.
C11_Witness ==
    /\ Ended(1, "batch_search") /\ result[1].status = "ok"
    /\ \E g \in DOMAIN result[1].value :
          /\ Len(result[1].value[g]) = 1
          /\ Len(kids[1][g].out) = 2

\* C12: batch_search on a collection whose index does not exist returns the
\* empty list, whatever the number of query texts, without a call to the
\* embedding engine, without a query and without an error.
C12_BatchOnAbsentCollection ==
    (Ended(1, "batch_search") /\ ~HadIndex(1)) =>
        /\ ReturnedValue(1, <<>>)
        /\ cnt[1].embed = 0
        /\ cnt[1].query = 0
        /\ StoreAsBefore(1)

\* C12 witness: a batch_search with two query texts on a collection whose
\* index does not exist has returned the empty list.
C12_Witness ==
    /\ Ended(1, "batch_search") /\ ~HadIndex(1)
    /\ Len(call[1].texts) = 2
    /\ ReturnedValue(1, <<>>)
    /\ cnt[1].embed = 0

\* C13, as claimed: delete_data_points removes exactly the stored documents
\* whose key is vdb:{collection}:{id} for a listed id, returns the number of
\* documents removed, 0 when it removed none, without an error, and leaves
\* every other document and every index as it was.
C13_DeleteRemovesListedKeys ==
    Ended(1, "delete_data_points") =>
        LET asked == {KeyOf(call[1].coll, call[1].ids[k]) : k \in DOMAIN call[1].ids}
            removed == asked \cap DOMAIN snap[1].docs
        IN /\ ReturnedValue(1, <<Cardinality(removed)>>)
           /\ DOMAIN docs = DOMAIN snap[1].docs \ removed
           /\ \A key \in DOMAIN docs : docs[key] = snap[1].docs[key]
           /\ indexes = snap[1].indexes
           /\ cnt[1].del = 1

\* C14: after a prune that returned normally no index of before the call is
\* left, and has_collection answers by the indexes the store has: for every
\* collection created before the prune it returns false.
C14_PruneDropsEveryIndex ==
    /\ (Ended(1, "prune") /\ result[1].status = "ok") =>
          /\ \A index \in DOMAIN snap[1].indexes : ~Exists(index)
          /\ cnt[1].drop = Cardinality(DOMAIN snap[1].indexes)
    /\ Ended(1, "has_collection") =>
          ReturnedValue(1, <<_index_name(call[1].coll) \in DOMAIN snap[1].indexes>>)

\* C14 witness: a prune on a store with two indexes has returned normally.
C14_Witness ==
    /\ Ended(1, "prune") /\ result[1].status = "ok"
    /\ Cardinality(DOMAIN snap[1].indexes) = 2
    /\ indexes = EmptyMap

\* C15: a prune that meets an error raises that error and stops: the indexes
\* it had dropped stay dropped, the one it failed on and those after it in
\* the enumeration stay.
C15_PruneStopsAtFirstError ==
    /\ (pc[1] = "pr_drop" /\ call[1].name = "prune") =>
          /\ DOMAIN indexes = Range(loc[1].todo)
          /\ \A index \in DOMAIN indexes : indexes[index] = snap[1].indexes[index]
          /\ cnt[1].drop = Cardinality(DOMAIN snap[1].indexes \ DOMAIN indexes)
    /\ (Ended(1, "prune") /\ result[1].status = "raise") =>
          /\ result[1].error =
                (IF cnt[1].list = 0 THEN "ConnectionError" ELSE "RequestError")
          /\ DOMAIN indexes \subseteq DOMAIN snap[1].indexes
          /\ \A index \in DOMAIN indexes : indexes[index] = snap[1].indexes[index]
          /\ IF cnt[1].drop = 0 THEN indexes = snap[1].indexes
             ELSE /\ indexes # EmptyMap
                  /\ Cardinality(DOMAIN snap[1].indexes \ DOMAIN indexes)
                        = cnt[1].drop - 1

\* C15 witness: a prune on a store with two indexes has dropped one, failed
\* on the other and raised.
C15_Witness ==
    /\ Ended(1, "prune") /\ RaisedError(1, "RequestError")
    /\ Cardinality(DOMAIN snap[1].indexes) = 2
    /\ Cardinality(DOMAIN indexes) = 1
    /\ cnt[1].drop = 2

\* C16, as claimed: has_collection ends with a boolean, never with an error,
\* whatever fails underneath.
C16_HasCollectionNeverRaises ==
    Ended(1, "has_collection") =>
        /\ result[1].status = "ok"
        /\ result[1].value \in {<<TRUE>>, <<FALSE>>}

\* C17, as claimed: retrieve ends with a list, never with an error, whatever
\* fails underneath.
C17_RetrieveNeverRaises ==
    Ended(1, "retrieve") => result[1].status = "ok"

\* C18: connection caching.  While a handle is cached, no step but the close
\* of the handle changes the cached handle, the connected flag or the handles
\* that exist, whatever fails in between; a get_connection that finds a
\* handle cached returns it and opens none; one that finds none and succeeds
\* returns a handle that did not exist before, open and now cached.
C18_ConnectionCached ==
    [][/\ (connected /\ client # 0 /\ pc[1] # "cl_close") =>
             /\ client' = client
             /\ connected' = connected
             /\ handles' = handles
       /\ (pc[1] # "done" /\ pc'[1] = "done" /\ call'[1].name = "get_connection") =>
             IF connected /\ client # 0
             THEN /\ result'[1] = [status |-> "ok", value |-> <<client>>, error |-> ""]
                  /\ cnt'[1].open = 0
             ELSE result'[1].status = "ok" =>
                     /\ result'[1].value = <<client'>>
                     /\ client' \notin DOMAIN handles
                     /\ handles'[client'] = "open"
                     /\ connected'
                     /\ cnt'[1].open = 1
      ]_vars

\* C18 witness: after a close and a fresh handle, a get_connection has
\* returned the cached second handle without opening a third.
C18_Witness ==
    /\ Ended(1, "get_connection")
    /\ handles = <<"closed", "open">>
    /\ ReturnedValue(1, <<2>>)
    /\ cnt[1].open = 0

\* C19: close never raises and always ends with the adapter disconnected:
\* no cached handle, the connected flag false; and a close on an adapter
\* that has no handle cached changes nothing.
C19_CloseAlwaysDisconnects ==
    /\ [](Ended(1, "close") =>
             /\ ReturnedValue(1, <<>>)
             /\ client = 0
             /\ ~connected)
    /\ [][(pc[1] = "idle" /\ call'[1].name = "close" /\ client = 0) =>
             /\ pc'[1] = "done"
             /\ result'[1] = [status |-> "ok", value |-> <<>>, error |-> ""]
             /\ handles' = handles
             /\ client' = 0 /\ connected' = connected
             /\ UNCHANGED store
         ]_vars

\* C19 witness: a close whose handle failed to close has ended: the handle is
\* still open, the adapter is disconnected.
C19_Witness ==
    /\ Ended(1, "close")
    /\ ReturnedValue(1, <<>>)
    /\ handles = <<"open">>
    /\ client = 0 /\ ~connected

\* C20, as claimed: _build_scored_results_from_ft returns a list for every
\* reply, and the empty list for a reply that is not a list of two elements
\* whose second is a mapping.
C20_DecodeNeverRaises ==
    Ended(1, "_build_scored_results_from_ft") =>
        /\ result[1].status = "ok"
        /\ The(call[1].raw).shape # "pair" => result[1].value = <<>>

\* C21, as claimed: a retrieve returns one entry per asked id that is stored,
\* in the order asked: the parsed payload of a document whose payload_data is
\* JSON, the raw document for one whose payload_data is missing, no string
\* or no JSON.
C21_MalformedPayloadNeverAborts ==
    Ended(1, "retrieve") =>
        LET stored(id) == KeyOf(call[1].coll, id) \in DOMAIN snap[1].docs
            found == SelectSeq(call[1].ids, stored)
            doc(k) == snap[1].docs[KeyOf(call[1].coll, found[k])]
        IN /\ result[1].status = "ok"
           /\ Len(result[1].value) = Len(found)
           /\ \A k \in DOMAIN found :
                 result[1].value[k] =
                    (IF doc(k).payload_data.tag = "json"
                     THEN doc(k).payload_data.tree
                     ELSE Str("[doc " \o doc(k).id \o "]"))

\* C22: get_connection is not lock-protected.  A call that finds no handle
\* cached goes on to open one, whoever else is opening one; the handle it
\* opens is stored over the one the adapter holds, which stays as it was;
\* and a close closes no handle but the one it found stored.
C22_FirstUseRace ==
    [][\A t \in Tasks :
          /\ (pc[t] = "idle" /\ call'[t].name = "get_connection"
                  /\ ~(connected /\ client # 0)) =>
                pc'[t] = "gc_create"
          /\ (pc[t] = "gc_create" /\ pc'[t] # "gc_create") =>
                /\ handles' = Append(handles, "open")
                /\ client' = Len(handles) + 1
                /\ connected'
                /\ result'[t] = [status |-> "ok", value |-> <<client'>>, error |-> ""]
          /\ (pc[t] = "cl_close" /\ pc'[t] = "done") =>
                \A h \in DOMAIN handles :
                   handles'[h] = (IF h = loc[t].conn THEN "closed" ELSE handles[h])
      ]_vars

\* C22 witness: two first-use calls have each opened a handle, the second
\* stored over the first, and the close that followed has closed the second
\* only: the first is still open and no longer held by the adapter.
C22_Witness ==
    \E t, u \in Tasks :
        /\ t # u
        /\ Ended(t, "get_connection") /\ ReturnedValue(t, <<1>>) /\ cnt[t].open = 1
        /\ Ended(u, "close")
        /\ handles = <<"open", "closed">>
        /\ client = 0 /\ ~connected

\* C23: score decoding in search.  Every result of a search carries a score:
\* the distance between the vector of its document and the query vector, as
\* the store returned it.
C23_SearchScoresDecoded ==
    (Ended(1, "search") /\ result[1].status = "ok") =>
        \A k \in DOMAIN result[1].value :
            LET r == result[1].value[k]
                doc == snap[1].docs[KeyOf(call[1].coll, r.id.x)]
            IN /\ ~IsNone(r.score)
               /\ The(r.score) = CosineDistance(doc.vector, cnt[1].vec)

\* C23 witness: a search has returned two results, the nearer with the score
\* of an equal vector and the other with that of an orthogonal one.
C23_Witness ==
    /\ Ended(1, "search") /\ result[1].status = "ok"
    /\ Len(result[1].value) = 2
    /\ result[1].value[1].score = Some(0)
    /\ result[1].value[2].score = Some(10)

\* The value a field map carries under a name, bytes or text, <<>> when it
\* carries none.
FieldNamed(fields, name) ==
    IF \E k \in DOMAIN fields : fields[k][1].x = name
    THEN <<fields[CHOOSE k \in DOMAIN fields : fields[k][1].x = name][2].x>>
    ELSE <<>>

\* The entries the decoder takes to the payload step: field maps whose score,
\* when there is one, is a number.
WellScored(raw) ==
    \A p \in DOMAIN raw.mapping :
        /\ raw.mapping[p].kind = "dict"
        /\ FieldNamed(raw.mapping[p].fields, "__vector_score") \in {<<>>, <<"0.3">>}

\* C24: payload decoding is total.  A reply of n entries decodes to n results,
\* in order, and the payload of each is a mapping: the parsed payload_data
\* when that is a JSON mapping, {_payload: v} when it is another JSON value
\* v, {_payload_raw: s} when it is a string s that is no JSON, and the empty
\* mapping when the entry has no payload_data.
C24_PayloadDecodingTotal ==
    (Ended(1, "_build_scored_results_from_ft")
        /\ The(call[1].raw).shape = "pair" /\ WellScored(The(call[1].raw))) =>
        LET raw == The(call[1].raw)
            pd(p) == FieldNamed(raw.mapping[p].fields, "payload_data")
        IN /\ result[1].status = "ok"
           /\ Len(result[1].value) = Len(raw.mapping)
           /\ \A p \in DOMAIN raw.mapping :
                 LET payload == result[1].value[p].payload IN
                 /\ payload.t = "dict"
                 /\ pd(p) = <<>> => payload.v = <<>>
                 /\ (pd(p) # <<>> /\ The(pd(p)).tag = "raw") =>
                       payload.v = << <<"_payload_raw", Str(The(pd(p)).raw)>> >>
                 /\ (pd(p) # <<>> /\ The(pd(p)).tag = "json") =>
                       IF The(pd(p)).tree.t = "dict"
                       THEN payload = The(pd(p)).tree
                       ELSE payload.v = << <<"_payload", The(pd(p)).tree>> >>

\* C24 witness: a reply of two entries, the payload_data of one a JSON list
\* and of the other no JSON, has been decoded to two results.
C24_Witness ==
    /\ Ended(1, "_build_scored_results_from_ft")
    /\ result[1].status = "ok" /\ Len(result[1].value) = 2
    /\ DictGet(result[1].value[1].payload, "_payload") = Some(List(<< Str("1") >>))
    /\ DictGet(result[1].value[2].payload, "_payload_raw") = Some(Str("{oops"))

\* A reply with every key, field name and field value delivered as text.
DeliveredAsText(raw) ==
    [raw EXCEPT !.mapping =
        [p \in DOMAIN @ |->
            [@[p] EXCEPT !.key = Text(@.x),
                         !.fields = [k \in DOMAIN @ |->
                                        <<Text(@[k][1].x), Text(@[k][2].x)>>]]]]

\* C25: byte/text normalization.  Decoding a reply gives what decoding the
\* same reply delivered as text gives: the same error, or the same list of
\* results, id, payload and score alike; every id is text; and the id of a
\* result whose entry has no id field is the key of the entry.
C25_BytesAndTextDecodeAlike ==
    Ended(1, "_build_scored_results_from_ft") =>
        LET raw == The(call[1].raw)
            as_text == DeliveredAsText(raw)
        IN /\ result[1].error = DecodeError(as_text)
           /\ result[1].status = "ok" =>
                 /\ result[1].value = _build_scored_results_from_ft(as_text)
                 /\ \A p \in DOMAIN result[1].value :
                       /\ ~result[1].value[p].id.b
                       /\ FieldNamed(raw.mapping[p].fields, "id") = <<>> =>
                             result[1].value[p].id.x = raw.mapping[p].key.x

\* C25 witness: a reply delivered as bytes has been decoded: its first entry,
\* without an id field, has the key for id; its second has its id field, its
\* payload and its score.
C25_Witness ==
    /\ Ended(1, "_build_scored_results_from_ft")
    /\ result[1].status = "ok" /\ Len(result[1].value) = 2
    /\ The(call[1].raw).mapping[1].key = [b |-> TRUE, x |-> "vdb:a:1"]
    /\ result[1].value[1].id = [b |-> FALSE, x |-> "vdb:a:1"]
    /\ FieldNamed(The(call[1].raw).mapping[2].fields, "id") = <<"1">>
    /\ result[1].value[2].id = [b |-> FALSE, x |-> "1"]
    /\ DictGet(result[1].value[2].payload, "id") = Some(Str("1"))
    /\ result[1].value[2].score = Some(3)

\* C26: query-vector resolution.  A search makes one call to the embedding
\* engine, with its query text alone, when it has no query vector and gets
\* as far as the query (a query given, the collection there, the resolved
\* limit above zero), and the query then carries the embedding of the text;
\* it makes none otherwise, and a query vector supplied is the one the query
\* carries, with or without a query text.
C26_QueryVectorResolution ==
    Ended(1, "search") =>
        LET resolved == IF IsNone(call[1].limit) THEN Cardinality(HadKeys(1))
                        ELSE The(call[1].limit)
            reaches == HadQuery(1) /\ HadIndex(1) /\ resolved > 0
        IN IF reaches /\ IsNone(call[1].qvec)
           THEN /\ cnt[1].embed = 1
                /\ cnt[1].data = <<The(call[1].qtext)>>
                /\ cnt[1].query = 1
                /\ cnt[1].vec = (IF The(call[1].qtext) = "x" THEN <<1, 0>> ELSE <<0, 1>>)
           ELSE /\ cnt[1].embed = 0
                /\ reaches => (cnt[1].query = 1 /\ cnt[1].vec = The(call[1].qvec))

\* C26 witness: a search given both a query text and a query vector has sent
\* its query with the vector and made no embedding call.
C26_Witness ==
    /\ Ended(1, "search")
    /\ ~IsNone(call[1].qtext) /\ ~IsNone(call[1].qvec)
    /\ cnt[1].query = 1 /\ cnt[1].vec = The(call[1].qvec)
    /\ cnt[1].embed = 0
    /\ HadKeys(1) # {}

\* C27: batching of embeddings.  A batch_search over n query texts on a
\* collection that exists makes one call to the embedding engine, with the n
\* texts, and runs n searches, each with its vector and none with a second
\* embedding call; a create_data_points over n points on a collection that
\* exists makes one call, with the n texts of the points.
C27_OneEmbeddingCallPerBatch ==
    /\ (Ended(1, "batch_search") /\ HadIndex(1)) =>
          LET n == Len(call[1].texts)
              resolved == IF IsNone(call[1].limit) THEN Cardinality(HadKeys(1))
                          ELSE The(call[1].limit)
          IN /\ cnt[1].embed = 1
             /\ cnt[1].data = call[1].texts
             /\ cnt[1].info = 1 + n * (IF IsNone(call[1].limit) THEN 2 ELSE 1)
             /\ cnt[1].query = (IF resolved > 0 THEN n ELSE 0)
    /\ (Ended(1, "create_data_points") /\ HadIndex(1)) =>
          /\ cnt[1].embed = 1
          /\ Len(cnt[1].data) = Len(call[1].points)
          /\ \A k \in DOMAIN call[1].points : cnt[1].data[k] = call[1].points[k].text
          /\ cnt[1].write = Len(call[1].points)

\* C27 witness: a batch_search over two query texts on a collection that
\* holds documents has made one embedding call and sent two queries.
C27_Witness ==
    /\ Ended(1, "batch_search") /\ HadIndex(1)
    /\ Len(call[1].texts) = 2
    /\ HadKeys(1) # {}
    /\ cnt[1].embed = 1 /\ cnt[1].query = 2

\* C28: no partial results.  An operation that waits for its gathered
\* sub-calls, the searches of a batch_search or the writes of a
\* create_data_points, and one of whose sub-calls has failed, goes on in one
\* way only: it ends, raising the error of the sub-call that failed first
\* and returning nothing, whatever the others have returned.  An operation
\* that has ended and one of whose sub-calls has failed has raised the error
\* of one of them.  And an operation returns normally only when every
\* sub-call is through and none has failed.
C28_NoPartialResults ==
    /\ [][LET failed == {k \in DOMAIN kids[1] : kids[1][k].exc # ""} IN
          (pc[1] \in {"bs_gather", "cdp_write"} /\ failed # {} /\ pc'[1] # pc[1]) =>
             /\ pc'[1] = "done"
             /\ result'[1] = [status |-> "raise", value |-> <<>>,
                              error |-> loc[1].exc]
             /\ \E k \in failed : kids[1][k].exc = loc[1].exc
         ]_vars
    /\ [](LET failed == {k \in DOMAIN kids[1] : kids[1][k].exc # ""} IN
          (pc[1] = "done" /\ failed # {}) =>
             /\ result[1].status = "raise"
             /\ result[1].value = <<>>
             /\ \E k \in failed : result[1].error = kids[1][k].exc)
    /\ [][(pc[1] \in {"bs_gather", "cdp_write"} /\ pc'[1] = "done"
              /\ result'[1].status = "ok") =>
             \A k \in DOMAIN kids'[1] :
                 kids'[1][k].at = "end" /\ kids'[1][k].exc = ""
         ]_vars

\* C28 witness: a batch_search over two query texts, on a collection that
\* holds documents, has ended with the error of its second search, the first
\* having returned results.
C28_Witness ==
    /\ Ended(1, "batch_search") /\ HadIndex(1) /\ HadKeys(1) # {}
    /\ Len(call[1].texts) = 2
    /\ cnt[1].embed = 1 /\ cnt[1].query = 2
    /\ RaisedError(1, "RequestError")
    /\ kids[1][1].at = "end" /\ kids[1][1].out # <<>>
    /\ kids[1][2].exc = "RequestError"
    /\ docs = snap[1].docs /\ indexes = snap[1].indexes

\* C29: no rollback.  No step of a create_data_points removes a document or
\* changes one other than that of the point whose write is answered, whether
\* the call has raised, goes on to raise, or not: a write that went through
\* stays when a later or an earlier one fails.
C29_WritesAreNotRolledBack ==
    [][(call[1].name = "create_data_points" /\ pc[1] # "idle") =>
          /\ DOMAIN docs \subseteq DOMAIN docs'
          /\ \A key \in DOMAIN docs' :
                (key \notin DOMAIN docs \/ docs'[key] # docs[key]) =>
                   \E p \in DOMAIN wire[1] :
                       /\ KidTurn(1, p) /\ Kid(1, p).at = "set"
                       /\ key = KeyOf(Kid(1, p).coll, Kid(1, p).dp.id)
      ]_vars

\* C29 witness: a create_data_points over two points has raised, one write
\* having failed; the store holds the document of one point and not that of
\* the other.
C29_Witness ==
    /\ Ended(1, "create_data_points") /\ RaisedError(1, "RequestError")
    /\ Len(call[1].points) = 2 /\ cnt[1].write = 2
    /\ call[1].points[1].id # call[1].points[2].id
    /\ KeyOf(call[1].coll, call[1].points[1].id) \in DOMAIN docs
    /\ KeyOf(call[1].coll, call[1].points[2].id) \notin DOMAIN docs
    /\ KeyOf(call[1].coll, call[1].points[1].id) \notin DOMAIN snap[1].docs

\* C30, as claimed: a stored document is immutable.  No step of the adapter
\* changes the vector or the payload of a document that is stored: it stays
\* as it is until it is removed.
C30_StoredDocumentImmutable ==
    [][\A key \in DOMAIN docs :
          key \in DOMAIN docs' =>
             /\ docs'[key].vector = docs[key].vector
             /\ docs'[key].payload_data = docs[key].payload_data
      ]_vars

\* C31: prune drops indexes and no document.  The documents are after a prune
\* what they were before it; a retrieve on a collection without an index
\* still returns an entry for every asked id that is stored; and a search on
\* a collection that has an index, re-created or not, returns the nearest of
\* the documents stored under the collection's prefix, whenever they were
\* written.
C31_PruneKeepsDocuments ==
    /\ Ended(1, "prune") => docs = snap[1].docs
    /\ (Ended(1, "retrieve") /\ ~HadIndex(1)) =>
          LET stored(id) == KeyOf(call[1].coll, id) \in DOMAIN docs
          IN /\ result[1].status = "ok"
             /\ Len(result[1].value) = Len(SelectSeq(call[1].ids, stored))
    /\ (Ended(1, "search") /\ HadIndex(1) /\ HadQuery(1)) =>
          LET resolved == IF IsNone(call[1].limit) THEN Cardinality(HadKeys(1))
                          ELSE The(call[1].limit)
              n == IF resolved < 0 THEN 0
                   ELSE Min(resolved, Cardinality(HadKeys(1)))
          IN /\ result[1].status = "ok"
             /\ Len(result[1].value) = n
             /\ \A k \in DOMAIN result[1].value :
                   KeyOf(call[1].coll, result[1].value[k].id.x) \in HadKeys(1)

\* C31 witness: a prune has dropped the index of a collection that holds
\* documents; the documents are all there.
C31_Witness ==
    /\ Ended(1, "prune") /\ result[1].status = "ok"
    /\ snap[1].indexes # EmptyMap /\ indexes = EmptyMap
    /\ Cardinality(DOMAIN docs) = 2
    /\ \A key \in DOMAIN docs : \E index \in DOMAIN snap[1].indexes :
          HasPrefix(key, snap[1].indexes[index])

\* C32: create_collection returns normally when the store has created the
\* index and acknowledged it, and in no other case: a command that raises or
\* is answered by anything but OK ends the call with an error and leaves the
\* indexes as they were.  The adapter keeps no record of its own: a
\* has_collection that answers true has found the index in the store.
C32_UnacknowledgedCreationRaises ==
    /\ [][(pc[1] = "cc_create" /\ pc'[1] = "done") =>
             LET index == "index:" \o call[1].coll
                 created == index \notin DOMAIN indexes /\ index \in DOMAIN indexes'
             IN /\ (result'[1].status = "ok") <=> created
                /\ ~created => (indexes' = indexes /\ result'[1].status = "raise")
         ]_vars
    /\ []((Ended(1, "has_collection") /\ ReturnedValue(1, <<TRUE>>)) => HadIndex(1))

\* C32 witness: the store has answered the creation of an index with
\* something other than OK; create_collection has raised, and the store
\* holds no such index.
C32_Witness ==
    /\ Ended(1, "create_collection") /\ RaisedError(1, "Exception")
    /\ cnt[1].create = 1
    /\ ~HadIndex(1) /\ ~Exists("index:" \o call[1].coll)
    /\ Usable(client)

\* C33, as claimed: the result of _serialize_for_json holds no UUID, at any
\* depth of mappings and sequences; a payload without a UUID is returned as
\* it is; and serializing the result again returns it unchanged.
C33_SerializationStringifiesIds ==
    \A t \in Tasks :
        Ended(t, "_serialize_for_json") =>
            LET obj == The(call[t].raw)
                out == result[t].value[1]
            IN /\ ~HasUuid(out)
               /\ ~HasUuid(obj) => out = obj
               /\ _serialize_for_json(out) = out

\* C39, as claimed: the keys isolate the collections.  Two different pairs of
\* a collection and an id have different keys, and the key prefix of one
\* collection is no prefix of a key of another, whatever the names and ids.
C39_KeysIsolateCollections ==
    \A t, u \in Tasks :
        (Ended(t, "_key") /\ Ended(u, "_key")) =>
            /\ (call[t].coll # call[u].coll \/ call[t].ids # call[u].ids) =>
                  result[t].value # result[u].value
            /\ call[t].coll # call[u].coll =>
                  ~HasPrefix(result[u].value[1], "vdb:" \o call[t].coll \o ":")

\* C34, as claimed: the connected flag is true only while a handle is
\* cached, in every state any task can observe, under every interleaving of
\* get_connection and close and whatever creation or close fails; and a
\* handle creation that fails leaves the adapter disconnected.
C34_FailedCreationDisconnected ==
    /\ [](connected => client # 0)
    /\ [][\A t \in Tasks :
             (pc[t] = "gc_create" /\ pc'[t] # "gc_create" /\ handles' = handles) =>
                (~connected' /\ client' = 0)
         ]_vars

\* C34: the connected flag is true only while a handle is cached, in every
\* state any task can observe, under every interleaving of get_connection
\* and close and whatever creation or close fails; the cached handle is one
\* that was created; and a handle creation that fails changes neither the
\* flag nor the cached handle, so that an adapter that was disconnected
\* stays disconnected.
C34_ConnectedOnlyWithHandle ==
    /\ [](connected => client # 0)
    /\ [](client # 0 => client \in DOMAIN handles)
    /\ [][\A t \in Tasks :
             (pc[t] = "gc_create" /\ pc'[t] # "gc_create" /\ handles' = handles) =>
                (client' = client /\ connected' = connected)
         ]_vars

\* C34 witness: a handle creation has failed on an adapter that a close had
\* disconnected: get_connection has raised and the adapter is disconnected.
C34_Witness ==
    \E t \in Tasks :
        /\ Ended(t, "get_connection") /\ RaisedError(t, "ConnectionError")
        /\ ~connected /\ client = 0
        /\ handles # <<>>

\* C35, as claimed: close is final for the calls in flight.  When a close has
\* returned and every other task is still in the get_connection call it
\* began before that close began, the adapter is disconnected.
C35_CloseIsFinal ==
    \A u \in Tasks :
        (/\ Ended(u, "close")
         /\ \A t \in Tasks \ {u} :
               /\ pc[t] # "idle"
               /\ call[t].name = "get_connection"
               /\ snap[t].pcs[u] = "idle") =>
           (~connected /\ client = 0)

\* C36, as claimed: whenever a create_collection that has found its
\* collection absent issues FT.CREATE, the adapter's field it reads holds a
\* handle, and it is open.
C36_CreateOnLiveHandle ==
    [][\A t \in Tasks :
          (/\ pc[t] = "cc_has" /\ pc'[t] # "cc_has"
           /\ loc[t].exc = "" /\ ~AlreadyExists(loc[t])) =>
             /\ client # 0
             /\ handles[client] = "open"
      ]_vars

\* C37, as claimed: a create_data_points that runs while a prune runs leaves
\* no document without an index.  When it returns without an error, having
\* written documents, the index of its collection exists.
C37_NoOrphanWrites ==
    [][(/\ pc[1] = "cdp_write"
        /\ pc'[1] = "done"
        /\ result'[1].status = "ok"
        /\ cnt'[1].write > 0) =>
           _index_name(call[1].coll) \in DOMAIN indexes'
      ]_vars

\* C38: the creation lock is released and never deadlocks.  A task that is
\* in no create_collection does not hold the lock, whether its call returned
\* early, returned after creating, or raised; the holder of the lock is not
\* among those waiting for it; and every create_collection that has begun
\* ends.
C38_LockReleased ==
    /\ [](\A t \in Tasks :
            /\ pc[t] \in {"idle", "done"} => lock # t
            /\ lock = t => ~\E k \in DOMAIN waiters : waiters[k] = t
            /\ pc[t] = "cc_wait" <=> \E k \in DOMAIN waiters : waiters[k] = t)
    /\ \A t \in Tasks : (pc[t] \notin {"idle", "done"}) ~> (pc[t] = "done")

\* A call has raised, and a call that began while it was running has ended
\* after it; the lock is free.
C38_Witness ==
    \E t, u \in Tasks :
        /\ t # u
        /\ Ended(t, "create_collection") /\ Ended(u, "create_collection")
        /\ result[u].status = "raise"
        /\ snap[t].pcs[u] \notin {"idle", "done"}
        /\ cnt[t].create = 1
        /\ lock = 0

\* C40, as claimed: a create_data_points that returns without an error has
\* written one document for each of its points.  For a list of points with
\* distinct ids, as many JSON.SET commands were sent as there are points, and
\* the key of every point is in the store.
C40_OneDocumentPerPoint ==
    \A t \in Tasks :
        LET points == call[t].points IN
        (/\ Ended(t, "create_data_points")
         /\ result[t].status = "ok"
         /\ \A j, k \in DOMAIN points : points[j].id = points[k].id => j = k) =>
           /\ cnt[t].write = Len(points)
           /\ \A k \in DOMAIN points : _key(call[t].coll, points[k].id) \in DOMAIN docs

====
